---- MODULE Spec2Model ----
(***************************************************************************)
(* gsmtui: the application state machine of src/src/app.rs (struct App,    *)
(* App::handle_event and the operations it dispatches to), driven by the   *)
(* main loop of src/src/main.rs (run_app, run_gcloud_auth).                *)
(*                                                                         *)
(* Every method of App is an operator from an App record to an App record; *)
(* the outcome of each external call (SecretClient, project_client,        *)
(* clipboard, gcloud) is an input `o` chosen by the environment.           *)
(* Option<T> is a sequence of length at most one: None is <<>> and Some(x) *)
(* is <<x>>.  Result<T> of an external call is the same: <<>> is Err.      *)
(* A String is the sequence of its UTF-8 bytes where the code indexes it   *)
(* (input_buffer), and a TLA+ string where it is only compared.            *)
(***************************************************************************)
EXTENDS Integers, Sequences, FiniteSets, TLC

\* ---------------------------------------------------------------- bounds

\* longest list the remote returns for list_secrets
MaxSecrets == 2
\* longest list the remote returns for list_versions
MaxVersions == 1
\* longest list the remote returns for list_projects
MaxProjects == 2
\* most characters typed into the input buffer
MaxInput == 1

\* ---------------------------------------------------------------- Option

None == <<>>
Some(x) == <<x>>
IsSome(opt) == opt /= <<>>
IsNone(opt) == opt = <<>>
Unwrap(opt) == opt[1]

\* Vec::get(idx): the element at a 0-based index, or None
Get(list, idx) == IF idx < Len(list) THEN Some(list[idx + 1]) ELSE None

\* ---------------------------------------------------------------- data

\* enum View
AuthRequired == <<"AuthRequired">>
SecretsList == <<"SecretsList">>
SecretDetail == <<"SecretDetail">>
ProjectSelector == <<"ProjectSelector">>
Input(mode) == <<"Input", mode>>
Confirm(action) == <<"Confirm">> \o action

\* enum InputMode
NewSecretName == "NewSecretName"
NewVersionValue == "NewVersionValue"

\* enum ConfirmAction
DeleteSecret(name) == <<"DeleteSecret", name>>
DestroyVersion(name, version) == <<"DestroyVersion", name, version>>

IsConfirm(view) == view[1] = "Confirm"
IsInput(view) == view[1] = "Input"
\* the ConfirmAction / InputMode a view carries
ConfirmOf(view) == SubSeq(view, 2, Len(view))
ModeOf(view) == view[2]

\* enum VersionState
VersionStates == {"Enabled", "Disabled", "Destroyed", "Unknown"}

\* enum Action
PlainActions == {"Quit", "Up", "Down", "Top", "Bottom", "Enter", "Back", "Refresh",
                 "NewSecret", "NewVersion", "Delete", "Copy", "ToggleSecretValue",
                 "Help", "Enable", "Disable", "OpenProjectSelector", "Backspace",
                 "CursorLeft", "CursorRight"}

\* the remote's universe: secret names, version ids, project ids, as listed
SecretNames == <<"a", "b", "c">>
VersionIds == <<"1", "2", "3">>
ProjectIds == <<"p1", "p2", "p3">>

\* the characters the event source delivers as Action::Char, as UTF-8 bytes:
\* 'a' and '-'
InputChars == {<<97>>, <<45>>}

\* the remote lists its entries in a fixed order: the first n of `all`, n <= max
Prefixes(all, max) == {SubSeq(all, 1, n) : n \in 0..(IF max < Len(all) THEN max ELSE Len(all))}

\* what list_secrets can return: SecretInfo snapshots with distinct names
SecretLists ==
    {[i \in 1..Len(q) |-> [short_name |-> q[i]]] : q \in Prefixes(SecretNames, MaxSecrets)}

\* what list_versions can return: VersionInfo snapshots with distinct ids
VersionLists ==
    UNION {{[i \in 1..Len(q) |-> [version |-> q[i], state |-> st[i]]] :
                st \in [1..Len(q) -> VersionStates]} :
           q \in Prefixes(VersionIds, MaxVersions)}

\* what list_projects can return
ProjectLists ==
    {[i \in 1..Len(q) |-> [project_id |-> q[i]]] : q \in Prefixes(ProjectIds, MaxProjects)}

\* ---------------------------------------------------------------- state

VARIABLES
    project_id,         \* App.project_id
    client,             \* App.client: None, or Some(project id it was built for)
    current_view,       \* App.current_view
    previous_view,      \* App.previous_view
    is_loading,         \* App.is_loading
    status,             \* App.status between steps: None or Some([text, is_error]),
                        \* the text kept as "" (see Shown)
    secrets,            \* App.secrets
    secrets_state,      \* App.secrets_state.selected()
    current_secret,     \* App.current_secret
    versions,           \* App.versions
    versions_state,     \* App.versions_state.selected()
    revealed_value,     \* App.revealed_value
    input_buffer,       \* App.input_buffer (UTF-8 bytes)
    cursor_position,    \* App.cursor_position
    show_help,          \* App.show_help
    available_projects, \* App.available_projects
    projects_state,     \* App.projects_state.selected()
    pc,                 \* where run_app is: "start", "loop", "auth", "quit", "panic"
    handling,           \* the step run_app has begun and not finished, where its calls
                        \* are followed one by one (SpecCalls): None or
                        \* Some([arg, o, todo])
    in_flight,          \* the external calls issued and not yet returned
    listed_for          \* history, followed in SpecListing: the short name of the
                        \* secret whose listing App.versions holds, None when the
                        \* cache was never filled or was cleared

\* the fields of the App, and where run_app is
fields == <<project_id, client, current_view, previous_view, is_loading, status,
            secrets, secrets_state, current_secret, versions, versions_state,
            revealed_value, input_buffer, cursor_position, show_help,
            available_projects, projects_state, pc>>

vars == <<fields, handling, in_flight, listed_for>>

\* the App as one record, with the bookkeeping of the step it is about to take:
\* result is what handle_event returns (None or Some(AppAction)) and calls is the
\* log of the external calls the step issues, in order
App ==
    [project_id |-> project_id, client |-> client, current_view |-> current_view,
     previous_view |-> previous_view, is_loading |-> is_loading, status |-> status,
     secrets |-> secrets, secrets_state |-> secrets_state,
     current_secret |-> current_secret, versions |-> versions,
     versions_state |-> versions_state, revealed_value |-> revealed_value,
     input_buffer |-> input_buffer, cursor_position |-> cursor_position,
     show_help |-> show_help, available_projects |-> available_projects,
     projects_state |-> projects_state, pc |-> pc, result |-> None, calls |-> <<>>]

\* The status message as the next step finds it.  app.rs only writes App.status
\* (set_status; ui reads it), so no step depends on the message it finds: between
\* steps the state keeps that a message is shown and its error flag.  The message
\* a step sets is in the App the step returns, text and all.
Shown(st) == IF IsNone(st) THEN None ELSE Some([text |-> "", is_error |-> Unwrap(st).is_error])

\* every field of the App becomes the variable's next value
Settles(s) ==
    /\ project_id' = s.project_id
    /\ client' = s.client
    /\ current_view' = s.current_view
    /\ previous_view' = s.previous_view
    /\ is_loading' = s.is_loading
    /\ status' = Shown(s.status)
    /\ secrets' = s.secrets
    /\ secrets_state' = s.secrets_state
    /\ current_secret' = s.current_secret
    /\ versions' = s.versions
    /\ versions_state' = s.versions_state
    /\ revealed_value' = s.revealed_value
    /\ input_buffer' = s.input_buffer
    /\ cursor_position' = s.cursor_position
    /\ show_help' = s.show_help
    /\ available_projects' = s.available_projects
    /\ projects_state' = s.projects_state
    /\ pc' = s.pc

\* the effect of a step taken as a whole, its calls issued and returned within it
Becomes(s) ==
    /\ Settles(s)
    /\ UNCHANGED <<handling, in_flight, listed_for>>

\* ---------------------------------------------------------------- externals

\* the outcomes of the external calls one step can make
Outcome(new, list_secrets, list_versions, list_projects, op, clipboard) ==
    [new |-> new, list_secrets |-> list_secrets, list_versions |-> list_versions,
     list_projects |-> list_projects, op |-> op, clipboard |-> clipboard]

\* a step that makes no external call
NoOutcome == Outcome(TRUE, None, None, None, TRUE, "ok")

\* an external call is issued: it is appended to the step's log
Issue(s, op, secret, version, input) ==
    [s EXCEPT !.calls = Append(@, [op |-> op, secret |-> secret, version |-> version,
                                   input |-> input, project |-> s.project_id,
                                   client |-> s.client])]

\* Option::unwrap on None panics: the task unwinds and run_app never resumes
Panic(s) == [s EXCEPT !.pc = "panic"]
Panicked(s) == s.pc = "panic"

\* sequencing: the statements after s run only if s did not panic
Then(s, F(_)) == IF Panicked(s) THEN s ELSE F(s)

\* self.client.as_ref().unwrap().<op>(...): panics without a client, else issues op
ClientCall(s, op, secret, version, input) ==
    IF IsNone(s.client) THEN Panic(s) ELSE Issue(s, op, secret, version, input)

\* ---------------------------------------------------------------- status

set_status(s, text, is_error) ==
    [s EXCEPT !.status = Some([text |-> text, is_error |-> is_error])]

\* ---------------------------------------------------------------- loads

\* a load_secrets that leaves the busy flag set when list_secrets fails
load_secrets_still_loading(s, o) ==
    LET s1 == set_status([s EXCEPT !.is_loading = TRUE], "Loading secrets...", FALSE)
        needs == IsNone(s1.client)
        s2 == IF needs THEN Issue(s1, "new", "", "", <<>>) ELSE s1
    IN  IF needs /\ ~o.new
        THEN [set_status(s2, "Auth error", TRUE) EXCEPT
                 !.current_view = AuthRequired, !.is_loading = FALSE]
        ELSE LET s3 == IF needs THEN [s2 EXCEPT !.client = Some(s.project_id)] ELSE s2
                 s4 == ClientCall(s3, "list_secrets", "", "", <<>>)
             IN  IF IsSome(o.list_secrets)
                 THEN LET got == Unwrap(o.list_secrets)
                          t == [s4 EXCEPT !.secrets = got]
                          u == IF Len(got) /= 0
                               THEN [t EXCEPT !.secrets_state = Some(0)] ELSE t
                      IN  Then(s4, LAMBDA x :
                              [set_status(u, "Loaded secrets", FALSE) EXCEPT
                                  !.is_loading = FALSE])
                 ELSE Then(s4, LAMBDA x :
                          [set_status(s4, "Auth error", TRUE) EXCEPT
                              !.current_view = AuthRequired])

\* a load_secrets that builds a client on every load
load_secrets_rebuilding(s, o) ==
    LET s1 == set_status([s EXCEPT !.is_loading = TRUE], "Loading secrets...", FALSE)
        s2 == Issue(s1, "new", "", "", <<>>)
    IN  IF ~o.new
        THEN [set_status(s2, "Auth error", TRUE) EXCEPT
                 !.current_view = AuthRequired, !.is_loading = FALSE]
        ELSE LET s3 == [s2 EXCEPT !.client = Some(s.project_id)]
                 s4 == ClientCall(s3, "list_secrets", "", "", <<>>)
                 s5 == IF IsSome(o.list_secrets)
                       THEN LET got == Unwrap(o.list_secrets)
                                t == [s4 EXCEPT !.secrets = got]
                                u == IF Len(got) /= 0
                                     THEN [t EXCEPT !.secrets_state = Some(0)] ELSE t
                            IN  set_status(u, "Loaded secrets", FALSE)
                       ELSE [set_status(s4, "Auth error", TRUE) EXCEPT
                                !.current_view = AuthRequired]
             IN  Then(s4, LAMBDA x : [s5 EXCEPT !.is_loading = FALSE])

load_secrets(s, o) ==
    LET s1 == set_status([s EXCEPT !.is_loading = TRUE], "Loading secrets...", FALSE)
        \* Initialize client if needed
        needs == IsNone(s1.client)
        s2 == IF needs THEN Issue(s1, "new", "", "", <<>>) ELSE s1
    IN  IF needs /\ ~o.new
        THEN [set_status(s2, "Auth error", TRUE) EXCEPT
                 !.current_view = AuthRequired, !.is_loading = FALSE]
        ELSE LET s3 == IF needs THEN [s2 EXCEPT !.client = Some(s.project_id)] ELSE s2
                 s4 == ClientCall(s3, "list_secrets", "", "", <<>>)
                 s5 == IF IsSome(o.list_secrets)
                       THEN LET got == Unwrap(o.list_secrets)
                                t == [s4 EXCEPT !.secrets = got]
                                u == IF Len(got) /= 0
                                     THEN [t EXCEPT !.secrets_state = Some(0)] ELSE t
                            IN  set_status(u, "Loaded secrets", FALSE)
                       ELSE [set_status(s4, "Auth error", TRUE) EXCEPT
                                !.current_view = AuthRequired]
             IN  Then(s4, LAMBDA x : [s5 EXCEPT !.is_loading = FALSE])

\* position(|p| p.project_id == id): the 0-based index of the first match, or None
Position(projects, id) ==
    LET hits == {i \in 1..Len(projects) : projects[i].project_id = id}
    IN  IF hits = {} THEN None
        ELSE Some((CHOOSE i \in hits : \A j \in hits : i <= j) - 1)

load_projects(s, o) ==
    LET s1 == set_status([s EXCEPT !.is_loading = TRUE], "Loading projects...", FALSE)
        s2 == Issue(s1, "list_projects", "", "", <<>>)
        s3 == IF IsSome(o.list_projects)
              THEN LET got == Unwrap(o.list_projects)
                       t == [s2 EXCEPT !.available_projects = got]
                       pos == Position(got, t.project_id)
                       current_idx == IF t.project_id = "" THEN 0
                                      ELSE IF IsSome(pos) THEN Unwrap(pos) ELSE 0
                       u == IF Len(got) /= 0
                            THEN [t EXCEPT !.projects_state = Some(current_idx)] ELSE t
                   IN  set_status(u, "Found projects", FALSE)
              ELSE [set_status(s2, "Auth error", TRUE) EXCEPT !.current_view = AuthRequired]
    IN  [s3 EXCEPT !.is_loading = FALSE]

load_versions(s, o) ==
    IF IsNone(s.current_secret) THEN s
    ELSE LET secret_name == Unwrap(s.current_secret).short_name
             s1 == set_status([s EXCEPT !.is_loading = TRUE], "Loading versions...", FALSE)
             s2 == ClientCall(s1, "list_versions", secret_name, "", <<>>)
             s3 == IF IsSome(o.list_versions)
                   THEN LET got == Unwrap(o.list_versions)
                            t == [s2 EXCEPT !.versions = got]
                            u == IF Len(got) /= 0
                                 THEN [t EXCEPT !.versions_state = Some(0)] ELSE t
                        IN  set_status(u, "Loaded versions", FALSE)
                   ELSE set_status(s2, "Error loading versions", TRUE)
         IN  Then(s2, LAMBDA x : [s3 EXCEPT !.is_loading = FALSE])

\* ---------------------------------------------------------------- navigation

\* selected().unwrap_or(0)
SelectedOr0(selected) == IF IsSome(selected) THEN Unwrap(selected) ELSE 0

select_previous_secret(s) ==
    LET len == Len(s.secrets)
        current == SelectedOr0(s.secrets_state)
        new == IF current = 0 THEN len - 1 ELSE current - 1
    IN  IF len = 0 THEN s ELSE [s EXCEPT !.secrets_state = Some(new)]

select_next_secret(s) ==
    LET len == Len(s.secrets)
        current == SelectedOr0(s.secrets_state)
        new == IF current >= len - 1 THEN 0 ELSE current + 1
    IN  IF len = 0 THEN s ELSE [s EXCEPT !.secrets_state = Some(new)]

select_first_secret(s) ==
    IF Len(s.secrets) /= 0 THEN [s EXCEPT !.secrets_state = Some(0)] ELSE s

select_last_secret(s) ==
    LET len == Len(s.secrets)
    IN  IF len > 0 THEN [s EXCEPT !.secrets_state = Some(len - 1)] ELSE s

select_previous_version(s) ==
    LET len == Len(s.versions)
        current == SelectedOr0(s.versions_state)
        new == IF current = 0 THEN len - 1 ELSE current - 1
    IN  IF len = 0 THEN s
        ELSE [s EXCEPT !.versions_state = Some(new), !.revealed_value = None]

\* a select_next_version that moves the cursor and keeps the revealed value
select_next_version_keeping_value(s) ==
    LET len == Len(s.versions)
        current == SelectedOr0(s.versions_state)
        new == IF current >= len - 1 THEN 0 ELSE current + 1
    IN  IF len = 0 THEN s ELSE [s EXCEPT !.versions_state = Some(new)]

select_next_version(s) ==
    LET len == Len(s.versions)
        current == SelectedOr0(s.versions_state)
        new == IF current >= len - 1 THEN 0 ELSE current + 1
    IN  IF len = 0 THEN s
        ELSE [s EXCEPT !.versions_state = Some(new), !.revealed_value = None]

select_first_version(s) ==
    IF Len(s.versions) /= 0
    THEN [s EXCEPT !.versions_state = Some(0), !.revealed_value = None] ELSE s

select_last_version(s) ==
    LET len == Len(s.versions)
    IN  IF len > 0
        THEN [s EXCEPT !.versions_state = Some(len - 1), !.revealed_value = None] ELSE s

\* a select_previous_project that stops at the first project
select_previous_project_clamped(s) ==
    LET len == Len(s.available_projects)
        current == SelectedOr0(s.projects_state)
        new == IF current = 0 THEN 0 ELSE current - 1
    IN  IF len = 0 THEN s ELSE [s EXCEPT !.projects_state = Some(new)]

select_previous_project(s) ==
    LET len == Len(s.available_projects)
        current == SelectedOr0(s.projects_state)
        new == IF current = 0 THEN len - 1 ELSE current - 1
    IN  IF len = 0 THEN s ELSE [s EXCEPT !.projects_state = Some(new)]

select_next_project(s) ==
    LET len == Len(s.available_projects)
        current == SelectedOr0(s.projects_state)
        new == IF current >= len - 1 THEN 0 ELSE current + 1
    IN  IF len = 0 THEN s ELSE [s EXCEPT !.projects_state = Some(new)]

select_first_project(s) ==
    IF Len(s.available_projects) /= 0 THEN [s EXCEPT !.projects_state = Some(0)] ELSE s

select_last_project(s) ==
    LET len == Len(s.available_projects)
    IN  IF len > 0 THEN [s EXCEPT !.projects_state = Some(len - 1)] ELSE s

\* ---------------------------------------------------------------- views

\* a go_back that leaves the revealed value in place
go_back_keeping_value(s) ==
    IF IsSome(s.previous_view)
    THEN [s EXCEPT !.current_view = Unwrap(s.previous_view), !.previous_view = None]
    ELSE [s EXCEPT !.current_view = SecretsList]

\* a go_back that restores the recorded view and keeps the record
go_back_keeping_record(s) ==
    LET t == IF IsSome(s.previous_view)
             THEN [s EXCEPT !.current_view = Unwrap(s.previous_view)]
             ELSE [s EXCEPT !.current_view = SecretsList]
    IN  [t EXCEPT !.revealed_value = None]

go_back(s) ==
    LET t == IF IsSome(s.previous_view)
             THEN [s EXCEPT !.current_view = Unwrap(s.previous_view), !.previous_view = None]
             ELSE [s EXCEPT !.current_view = SecretsList]
    IN  [t EXCEPT !.revealed_value = None]

open_project_selector(s, o) ==
    LET t == load_projects(s, o)
    IN  [t EXCEPT !.previous_view = Some(t.current_view), !.current_view = ProjectSelector]

\* a select_project that keeps the client handle of the project it leaves
select_project_keeping_client(s, o) ==
    LET project == IF IsSome(s.projects_state)
                   THEN Get(s.available_projects, Unwrap(s.projects_state)) ELSE None
    IN  IF IsNone(project) THEN s
        ELSE LET new_project_id == Unwrap(project).project_id
             IN  IF new_project_id = s.project_id
                 THEN go_back(set_status(s, "Already on this project", FALSE))
                 ELSE LET t == [s EXCEPT !.project_id = new_project_id,
                                         !.secrets = <<>>,
                                         !.secrets_state = None,
                                         !.current_secret = None,
                                         !.versions = <<>>,
                                         !.versions_state = None,
                                         !.revealed_value = None]
                          u == [set_status(t, "Switched to project", FALSE) EXCEPT
                                   !.current_view = SecretsList, !.previous_view = None]
                      IN  load_secrets(u, o)

select_project(s, o) ==
    LET project == IF IsSome(s.projects_state)
                   THEN Get(s.available_projects, Unwrap(s.projects_state)) ELSE None
    IN  IF IsNone(project) THEN s
        ELSE LET new_project_id == Unwrap(project).project_id
             IN  IF new_project_id = s.project_id
                 THEN go_back(set_status(s, "Already on this project", FALSE))
                 ELSE LET t == [s EXCEPT !.project_id = new_project_id,
                                         !.client = None,
                                         !.secrets = <<>>,
                                         !.secrets_state = None,
                                         !.current_secret = None,
                                         !.versions = <<>>,
                                         !.versions_state = None,
                                         !.revealed_value = None]
                          u == [set_status(t, "Switched to project", FALSE) EXCEPT
                                   !.current_view = SecretsList, !.previous_view = None]
                      IN  load_secrets(u, o)

\* an enter_secret_detail that opens the detail view without recording the secret
enter_secret_detail_unrecorded(s, o) ==
    LET secret == IF IsSome(s.secrets_state)
                  THEN Get(s.secrets, Unwrap(s.secrets_state)) ELSE None
    IN  IF IsNone(secret) THEN s
        ELSE [s EXCEPT !.previous_view = Some(SecretsList),
                       !.current_view = SecretDetail,
                       !.versions_state = None,
                       !.revealed_value = None]

enter_secret_detail(s, o) ==
    LET secret == IF IsSome(s.secrets_state)
                  THEN Get(s.secrets, Unwrap(s.secrets_state)) ELSE None
    IN  IF IsNone(secret) THEN s
        ELSE load_versions([s EXCEPT !.current_secret = Some(Unwrap(secret)),
                                     !.previous_view = Some(SecretsList),
                                     !.current_view = SecretDetail,
                                     !.versions_state = None,
                                     !.revealed_value = None], o)

\* ---------------------------------------------------------------- text editor

\* a byte that starts a character (not a UTF-8 continuation byte 0x80..0xBF)
IsCharStart(b) == b < 128 \/ b >= 192

\* the number of bytes of the character whose first byte is b
CharWidth(b) == IF b < 128 THEN 1 ELSE IF b < 224 THEN 2 ELSE IF b < 240 THEN 3 ELSE 4

\* str::char_indices(): the 0-based byte offsets at which the characters start
\* (those of the bytes lo..hi, found half by half)
RECURSIVE CharIndicesFrom(_, _, _)
CharIndicesFrom(buf, lo, hi) ==
    IF lo > hi THEN <<>>
    ELSE IF lo = hi THEN (IF IsCharStart(buf[lo]) THEN <<lo - 1>> ELSE <<>>)
    ELSE CharIndicesFrom(buf, lo, (lo + hi) \div 2)
             \o CharIndicesFrom(buf, (lo + hi) \div 2 + 1, hi)

char_indices(buf) == CharIndicesFrom(buf, 1, Len(buf))

\* chars().count()
CharCount(buf) == Len(char_indices(buf))

\* char_indices().nth(n).map(|(i, _)| i).unwrap_or(dflt)
NthByteIdx(buf, n, dflt) ==
    LET idx == char_indices(buf)
    IN  IF n < Len(idx) THEN idx[n + 1] ELSE dflt

\* an input_char that takes the cursor for a byte offset
input_char_at_byte(s, c) ==
    LET byte_idx == IF s.cursor_position < Len(s.input_buffer)
                    THEN s.cursor_position ELSE Len(s.input_buffer)
    IN  [s EXCEPT !.input_buffer = SubSeq(@, 1, byte_idx) \o c \o SubSeq(@, byte_idx + 1, Len(@)),
                  !.cursor_position = @ + 1]

input_char(s, c) ==
    LET byte_idx == NthByteIdx(s.input_buffer, s.cursor_position, Len(s.input_buffer))
    IN  [s EXCEPT !.input_buffer = SubSeq(@, 1, byte_idx) \o c \o SubSeq(@, byte_idx + 1, Len(@)),
                  !.cursor_position = @ + 1]

\* an input_backspace that removes one byte where the character starts
input_backspace_one_byte(s) ==
    IF s.cursor_position > 0
    THEN LET buf == s.input_buffer
             byte_idx == NthByteIdx(buf, s.cursor_position - 1, 0)
         IN  IF byte_idx >= Len(buf) THEN Panic(s)
             ELSE [s EXCEPT !.input_buffer =
                                SubSeq(buf, 1, byte_idx) \o SubSeq(buf, byte_idx + 2, Len(buf)),
                            !.cursor_position = @ - 1]
    ELSE s

input_backspace(s) ==
    IF s.cursor_position > 0
    THEN LET buf == s.input_buffer
             byte_idx == NthByteIdx(buf, s.cursor_position - 1, 0)
         IN  \* String::remove panics when byte_idx is not the start of a character
             IF byte_idx >= Len(buf) \/ ~IsCharStart(buf[byte_idx + 1]) THEN Panic(s)
             ELSE [s EXCEPT !.input_buffer =
                                SubSeq(buf, 1, byte_idx)
                                \o SubSeq(buf, byte_idx + CharWidth(buf[byte_idx + 1]) + 1, Len(buf)),
                            !.cursor_position = @ - 1]
    ELSE s

cursor_left(s) ==
    IF s.cursor_position > 0 THEN [s EXCEPT !.cursor_position = @ - 1] ELSE s

\* a cursor_right that takes the number of bytes for the number of characters
cursor_right_by_bytes(s) ==
    IF s.cursor_position < Len(s.input_buffer) THEN [s EXCEPT !.cursor_position = @ + 1] ELSE s

cursor_right(s) ==
    LET char_count == CharCount(s.input_buffer)
    IN  IF s.cursor_position < char_count THEN [s EXCEPT !.cursor_position = @ + 1] ELSE s

\* a start_new_secret that keeps what the buffer held and where the cursor was
start_new_secret_keeping_buffer(s) ==
    [s EXCEPT !.previous_view = Some(s.current_view),
              !.current_view = Input(NewSecretName)]

start_new_secret(s) ==
    [s EXCEPT !.input_buffer = <<>>, !.cursor_position = 0,
              !.previous_view = Some(s.current_view),
              !.current_view = Input(NewSecretName)]

\* a start_new_version that does not record the view it is opened from
start_new_version_unrecorded(s) ==
    [s EXCEPT !.input_buffer = <<>>, !.cursor_position = 0,
              !.current_view = Input(NewVersionValue)]

start_new_version(s) ==
    [s EXCEPT !.input_buffer = <<>>, !.cursor_position = 0,
              !.previous_view = Some(s.current_view),
              !.current_view = Input(NewVersionValue)]

\* ---------------------------------------------------------------- validation

\* the longest name validate_secret_name accepts, in bytes (name.len())
NameLimit == 255

is_ascii_alphabetic(b) == (b >= 65 /\ b <= 90) \/ (b >= 97 /\ b <= 122)
is_ascii_alphanumeric(b) == is_ascii_alphabetic(b) \/ (b >= 48 /\ b <= 57)

\* validate_secret_name: None when the name is accepted, else Some(error message)
validate_secret_name(name) ==
    LET starts == {i \in 1..Len(name) : IsCharStart(name[i])}
        \* c.is_ascii_alphanumeric() || c == '_' || c == '-', c the character at i
        valid(i) == is_ascii_alphanumeric(name[i]) \/ name[i] = 95 \/ name[i] = 45
    IN  IF Len(name) = 0 THEN Some("Secret name cannot be empty")
        ELSE IF Len(name) > NameLimit THEN Some("Secret name must be 255 characters or less")
        ELSE IF ~is_ascii_alphabetic(name[1]) THEN Some("Secret name must start with a letter")
        ELSE IF \E i \in starts : ~valid(i)
             THEN Some("Secret name can only contain letters, digits, underscores, and hyphens")
        ELSE IF name[Len(name)] = 45 THEN Some("Secret name cannot end with a hyphen")
        ELSE None

\* ---------------------------------------------------------------- input submission

\* a submit_input that sends the new secret's name to create_secret unvalidated
submit_input_unvalidated(s, mode, o) ==
    LET input == s.input_buffer
        s1 == [s EXCEPT !.input_buffer = <<>>, !.cursor_position = 0]
    IN  IF Len(input) = 0 THEN go_back(set_status(s1, "Input cannot be empty", TRUE))
        ELSE IF mode = NewSecretName
        THEN LET s2 == ClientCall([s1 EXCEPT !.is_loading = TRUE],
                                  "create_secret", "", "", input)
                 s3 == IF o.op
                       THEN load_secrets(go_back(set_status(s2, "Created secret", FALSE)), o)
                       ELSE go_back(set_status(s2, "Failed to create secret", TRUE))
             IN  Then(s2, LAMBDA x : Then(s3, LAMBDA y : [y EXCEPT !.is_loading = FALSE]))
        ELSE s1

\* a submit_input that takes an empty buffer for an input like any other
submit_input_accepting_empty(s, mode, o) ==
    LET input == s.input_buffer
        s1 == [s EXCEPT !.input_buffer = <<>>, !.cursor_position = 0]
    IN  IF mode = NewSecretName
        THEN LET e == validate_secret_name(input)
             IN  IF IsSome(e) THEN go_back(set_status(s1, Unwrap(e), TRUE))
                 ELSE LET s2 == ClientCall([s1 EXCEPT !.is_loading = TRUE],
                                           "create_secret", "", "", input)
                          s3 == IF o.op
                                THEN load_secrets(
                                         go_back(set_status(s2, "Created secret", FALSE)), o)
                                ELSE go_back(set_status(s2, "Failed to create secret", TRUE))
                      IN  Then(s2, LAMBDA x :
                              Then(s3, LAMBDA y : [y EXCEPT !.is_loading = FALSE]))
        ELSE IF IsSome(s1.current_secret)
        THEN LET secret_name == Unwrap(s1.current_secret).short_name
                 s2 == ClientCall([s1 EXCEPT !.is_loading = TRUE],
                                  "add_version", secret_name, "", input)
                 s3 == IF o.op
                       THEN load_versions(go_back(set_status(s2, "Added version", FALSE)), o)
                       ELSE go_back(set_status(s2, "Failed to add version", TRUE))
             IN  Then(s2, LAMBDA x : Then(s3, LAMBDA y : [y EXCEPT !.is_loading = FALSE]))
        ELSE s1

submit_input(s, mode, o) ==
    LET input == s.input_buffer
        s1 == [s EXCEPT !.input_buffer = <<>>, !.cursor_position = 0]
    IN  IF Len(input) = 0 THEN go_back(set_status(s1, "Input cannot be empty", TRUE))
        ELSE IF mode = NewSecretName
        THEN LET e == validate_secret_name(input)
             IN  IF IsSome(e) THEN go_back(set_status(s1, Unwrap(e), TRUE))
                 ELSE LET s2 == ClientCall([s1 EXCEPT !.is_loading = TRUE],
                                           "create_secret", "", "", input)
                          s3 == IF o.op
                                THEN load_secrets(
                                         go_back(set_status(s2, "Created secret", FALSE)), o)
                                ELSE go_back(set_status(s2, "Failed to create secret", TRUE))
                      IN  Then(s2, LAMBDA x :
                              Then(s3, LAMBDA y : [y EXCEPT !.is_loading = FALSE]))
        ELSE IF IsSome(s1.current_secret)
        THEN LET secret_name == Unwrap(s1.current_secret).short_name
                 s2 == ClientCall([s1 EXCEPT !.is_loading = TRUE],
                                  "add_version", secret_name, "", input)
                 s3 == IF o.op
                       THEN load_versions(go_back(set_status(s2, "Added version", FALSE)), o)
                       ELSE go_back(set_status(s2, "Failed to add version", TRUE))
             IN  Then(s2, LAMBDA x : Then(s3, LAMBDA y : [y EXCEPT !.is_loading = FALSE]))
        ELSE s1

\* ---------------------------------------------------------------- confirmation

\* a confirm_delete_secret that captures the first secret, not the selected one
confirm_delete_first_secret(s) ==
    LET secret == IF IsSome(s.secrets_state) THEN Get(s.secrets, 0) ELSE None
    IN  IF IsNone(secret) THEN s
        ELSE [s EXCEPT !.previous_view = Some(s.current_view),
                       !.current_view = Confirm(DeleteSecret(Unwrap(secret).short_name))]

confirm_delete_secret(s) ==
    LET secret == IF IsSome(s.secrets_state)
                  THEN Get(s.secrets, Unwrap(s.secrets_state)) ELSE None
    IN  IF IsNone(secret) THEN s
        ELSE [s EXCEPT !.previous_view = Some(s.current_view),
                       !.current_view = Confirm(DeleteSecret(Unwrap(secret).short_name))]

\* the version the cursor is on, when a secret is open: Some(VersionInfo) or None
SelectedVersion(s) ==
    IF IsSome(s.current_secret) /\ IsSome(s.versions_state)
    THEN Get(s.versions, Unwrap(s.versions_state)) ELSE None

confirm_destroy_version(s) ==
    LET version == SelectedVersion(s)
    IN  IF IsNone(version) THEN s
        ELSE [s EXCEPT !.previous_view = Some(s.current_view),
                       !.current_view = Confirm(DestroyVersion(
                           Unwrap(s.current_secret).short_name, Unwrap(version).version))]

\* an execute_confirmed_action that keeps previous_view after a deletion
execute_confirmed_action_keeping_record(s, confirm, o) ==
    IF confirm[1] = "DeleteSecret"
    THEN LET name == confirm[2]
             s1 == ClientCall([s EXCEPT !.is_loading = TRUE], "delete_secret", name, "", <<>>)
             s2 == IF o.op
                   THEN load_secrets(
                            [set_status(s1, "Deleted secret", FALSE) EXCEPT
                                !.current_view = SecretsList], o)
                   ELSE go_back(set_status(s1, "Failed to delete", TRUE))
         IN  Then(s1, LAMBDA x : Then(s2, LAMBDA y : [y EXCEPT !.is_loading = FALSE]))
    ELSE LET secret_name == confirm[2]
             version == confirm[3]
             s1 == ClientCall([s EXCEPT !.is_loading = TRUE],
                              "destroy_version", secret_name, version, <<>>)
             s2 == IF o.op
                   THEN load_versions(go_back(set_status(s1, "Destroyed version", FALSE)), o)
                   ELSE go_back(set_status(s1, "Failed to destroy", TRUE))
         IN  Then(s1, LAMBDA x : Then(s2, LAMBDA y : [y EXCEPT !.is_loading = FALSE]))

execute_confirmed_action(s, confirm, o) ==
    IF confirm[1] = "DeleteSecret"
    THEN LET name == confirm[2]
             s1 == ClientCall([s EXCEPT !.is_loading = TRUE], "delete_secret", name, "", <<>>)
             s2 == IF o.op
                   THEN load_secrets(
                            [set_status(s1, "Deleted secret", FALSE) EXCEPT
                                !.current_view = SecretsList, !.previous_view = None], o)
                   ELSE go_back(set_status(s1, "Failed to delete", TRUE))
         IN  Then(s1, LAMBDA x : Then(s2, LAMBDA y : [y EXCEPT !.is_loading = FALSE]))
    ELSE LET secret_name == confirm[2]
             version == confirm[3]
             s1 == ClientCall([s EXCEPT !.is_loading = TRUE],
                              "destroy_version", secret_name, version, <<>>)
             s2 == IF o.op
                   THEN load_versions(go_back(set_status(s1, "Destroyed version", FALSE)), o)
                   ELSE go_back(set_status(s1, "Failed to destroy", TRUE))
         IN  Then(s1, LAMBDA x : Then(s2, LAMBDA y : [y EXCEPT !.is_loading = FALSE]))

\* ---------------------------------------------------------------- secret value

\* the plaintext access_version returns
SecretValue == "value"

\* a toggle_secret_value without the guard on disabled versions
toggle_secret_value_unguarded(s, o) ==
    IF IsSome(s.revealed_value) THEN [s EXCEPT !.revealed_value = None]
    ELSE LET version == IF IsSome(s.current_secret) /\ IsSome(s.versions_state)
                        THEN Get(s.versions, Unwrap(s.versions_state)) ELSE None
         IN  IF IsNone(version) THEN s
             ELSE IF Unwrap(version).state = "Destroyed"
             THEN set_status(s, "Cannot access destroyed version - data is permanently gone", TRUE)
             ELSE LET s1 == ClientCall([s EXCEPT !.is_loading = TRUE], "access_version",
                                       Unwrap(s.current_secret).short_name,
                                       Unwrap(version).version, <<>>)
                      s2 == IF o.op
                            THEN set_status([s1 EXCEPT !.revealed_value = Some("value")],
                                            "Press 's' to hide value", FALSE)
                            ELSE set_status(s1, "Failed to access", TRUE)
                  IN  Then(s1, LAMBDA x : [s2 EXCEPT !.is_loading = FALSE])

toggle_secret_value(s, o) ==
    IF IsSome(s.revealed_value) THEN [s EXCEPT !.revealed_value = None]
    ELSE LET version == SelectedVersion(s)
         IN  IF IsNone(version) THEN s
             ELSE IF Unwrap(version).state = "Destroyed"
             THEN set_status(s, "Cannot access destroyed version - data is permanently gone", TRUE)
             ELSE IF Unwrap(version).state = "Disabled"
             THEN set_status(s, "Version is disabled - press 'e' to enable it first", TRUE)
             ELSE LET s1 == ClientCall([s EXCEPT !.is_loading = TRUE], "access_version",
                                       Unwrap(s.current_secret).short_name,
                                       Unwrap(version).version, <<>>)
                      s2 == IF o.op
                            THEN set_status([s1 EXCEPT !.revealed_value = Some(SecretValue)],
                                            "Press 's' to hide value", FALSE)
                            ELSE set_status(s1, "Failed to access", TRUE)
                  IN  Then(s1, LAMBDA x : [s2 EXCEPT !.is_loading = FALSE])

copy_secret_value(s, o) ==
    LET version == SelectedVersion(s)
    IN  IF IsNone(version) THEN s
        ELSE IF Unwrap(version).state = "Destroyed"
        THEN set_status(s, "Cannot copy destroyed version - data is permanently gone", TRUE)
        ELSE IF Unwrap(version).state = "Disabled"
        THEN set_status(s, "Version is disabled - press 'e' to enable it first", TRUE)
        ELSE LET s1 == ClientCall([s EXCEPT !.is_loading = TRUE], "access_version",
                                  Unwrap(s.current_secret).short_name,
                                  Unwrap(version).version, <<>>)
                 s2 == IF o.op
                       THEN LET c == Issue(s1, "clipboard", "", "", <<>>)
                            IN  IF o.clipboard = "ok"
                                THEN set_status(c, "Copied to clipboard!", FALSE)
                                ELSE IF o.clipboard = "failed"
                                THEN set_status(c, "Failed to copy to clipboard", TRUE)
                                ELSE set_status(c, "Clipboard not available", TRUE)
                       ELSE set_status(s1, "Failed to access", TRUE)
             IN  Then(s1, LAMBDA x : [s2 EXCEPT !.is_loading = FALSE])

\* ---------------------------------------------------------------- version state

\* an enable_selected_version that rejects enabled versions only
enable_selected_version_lax(s, o) ==
    LET version == IF IsSome(s.current_secret) /\ IsSome(s.versions_state)
                   THEN Get(s.versions, Unwrap(s.versions_state)) ELSE None
    IN  IF IsNone(version) THEN s
        ELSE IF Unwrap(version).state = "Enabled"
        THEN set_status(s, "Can only enable disabled versions", TRUE)
        ELSE LET s1 == ClientCall([s EXCEPT !.is_loading = TRUE], "enable_version",
                                  Unwrap(s.current_secret).short_name,
                                  Unwrap(version).version, <<>>)
                 s2 == IF o.op
                       THEN load_versions(set_status(s1, "Enabled version", FALSE), o)
                       ELSE set_status(s1, "Failed to enable", TRUE)
             IN  Then(s1, LAMBDA x : Then(s2, LAMBDA y : [y EXCEPT !.is_loading = FALSE]))

enable_selected_version(s, o) ==
    LET version == SelectedVersion(s)
    IN  IF IsNone(version) THEN s
        ELSE IF Unwrap(version).state /= "Disabled"
        THEN set_status(s, "Can only enable disabled versions", TRUE)
        ELSE LET s1 == ClientCall([s EXCEPT !.is_loading = TRUE], "enable_version",
                                  Unwrap(s.current_secret).short_name,
                                  Unwrap(version).version, <<>>)
                 s2 == IF o.op
                       THEN load_versions(set_status(s1, "Enabled version", FALSE), o)
                       ELSE set_status(s1, "Failed to enable", TRUE)
             IN  Then(s1, LAMBDA x : Then(s2, LAMBDA y : [y EXCEPT !.is_loading = FALSE]))

disable_selected_version(s, o) ==
    LET version == SelectedVersion(s)
    IN  IF IsNone(version) THEN s
        ELSE IF Unwrap(version).state /= "Enabled"
        THEN set_status(s, "Can only disable enabled versions", TRUE)
        ELSE LET s1 == ClientCall([s EXCEPT !.is_loading = TRUE], "disable_version",
                                  Unwrap(s.current_secret).short_name,
                                  Unwrap(version).version, <<>>)
                 s2 == IF o.op
                       THEN load_versions(set_status(s1, "Disabled version", FALSE), o)
                       ELSE set_status(s1, "Failed to disable", TRUE)
             IN  Then(s1, LAMBDA x : Then(s2, LAMBDA y : [y EXCEPT !.is_loading = FALSE]))

\* ---------------------------------------------------------------- handlers

\* an Action of the event source: its variant and, for Char(c), the character
Act(kind) == [kind |-> kind, c |-> <<>>]
Char(c) == [kind |-> "Char", c |-> c]

\* return Ok(Some(app_action))
Return(s, app_action) == [s EXCEPT !.result = Some(app_action)]

\* a handle_auth_required_action that answers Refresh with a status message
handle_auth_required_action_refreshing(s, a) ==
    CASE a.kind = "Quit" -> Return(s, "Quit")
      [] a.kind = "Enter" -> Return(s, "RunGcloudAuth")
      [] a.kind = "Refresh" -> set_status(s, "Authentication required", TRUE)
      [] OTHER -> s

handle_auth_required_action(s, a) ==
    CASE a.kind = "Quit" -> Return(s, "Quit")
      [] a.kind = "Enter" -> Return(s, "RunGcloudAuth")
      [] OTHER -> s

on_auth_success(s, o) ==
    load_projects([set_status(s, "Authentication successful!", FALSE) EXCEPT
                      !.current_view = ProjectSelector], o)

\* an on_auth_failure that leaves the auth view for the project selector
on_auth_failure_leaving(s, error) ==
    [set_status(s, "Authentication was cancelled or failed", TRUE) EXCEPT
        !.current_view = ProjectSelector]

on_auth_failure(s, error) ==
    IF IsSome(error) THEN set_status(s, "Failed to run gcloud", TRUE)
    ELSE set_status(s, "Authentication was cancelled or failed", TRUE)

handle_secrets_list_action(s, a, o) ==
    CASE a.kind = "Quit" -> Return(s, "Quit")
      [] a.kind = "Up" -> select_previous_secret(s)
      [] a.kind = "Down" -> select_next_secret(s)
      [] a.kind = "Top" -> select_first_secret(s)
      [] a.kind = "Bottom" -> select_last_secret(s)
      [] a.kind = "Enter" -> enter_secret_detail(s, o)
      [] a.kind = "Refresh" -> load_secrets(s, o)
      [] a.kind = "NewSecret" -> start_new_secret(s)
      [] a.kind = "Delete" -> confirm_delete_secret(s)
      [] a.kind = "OpenProjectSelector" -> open_project_selector(s, o)
      [] OTHER -> s

handle_project_selector_action(s, a, o) ==
    CASE a.kind = "Quit" -> Return(s, "Quit")
      [] a.kind = "Back" -> go_back(s)
      [] a.kind = "Up" -> select_previous_project(s)
      [] a.kind = "Down" -> select_next_project(s)
      [] a.kind = "Top" -> select_first_project(s)
      [] a.kind = "Bottom" -> select_last_project(s)
      [] a.kind = "Enter" -> select_project(s, o)
      [] OTHER -> s

handle_secret_detail_action(s, a, o) ==
    CASE a.kind = "Quit" -> Return(s, "Quit")
      [] a.kind = "Back" -> go_back(s)
      [] a.kind = "Up" -> select_previous_version(s)
      [] a.kind = "Down" -> select_next_version(s)
      [] a.kind = "Top" -> select_first_version(s)
      [] a.kind = "Bottom" -> select_last_version(s)
      [] a.kind = "Refresh" -> load_versions(s, o)
      [] a.kind = "NewVersion" -> start_new_version(s)
      [] a.kind = "ToggleSecretValue" -> toggle_secret_value(s, o)
      [] a.kind = "Copy" -> copy_secret_value(s, o)
      [] a.kind = "Enable" -> enable_selected_version(s, o)
      [] a.kind = "Disable" -> disable_selected_version(s, o)
      [] a.kind = "Delete" -> confirm_destroy_version(s)
      [] a.kind = "OpenProjectSelector" -> open_project_selector(s, o)
      [] OTHER -> s

handle_input_action(s, a, mode, o) ==
    CASE a.kind = "Quit" -> Return(s, "Quit")
      [] a.kind = "Back" -> go_back([s EXCEPT !.input_buffer = <<>>, !.cursor_position = 0])
      [] a.kind = "Enter" -> submit_input(s, mode, o)
      [] a.kind = "Char" -> input_char(s, a.c)
      [] a.kind = "Backspace" -> input_backspace(s)
      [] a.kind = "CursorLeft" -> cursor_left(s)
      [] a.kind = "CursorRight" -> cursor_right(s)
      [] OTHER -> s

\* a handle_confirm_action without an arm for Quit
handle_confirm_action_ignoring_quit(s, a, confirm, o) ==
    CASE a.kind = "Enter" -> execute_confirmed_action(s, confirm, o)
      [] a.kind = "Back" -> go_back(s)
      [] OTHER -> s

\* a handle_confirm_action in which Quit confirms
handle_confirm_action_quit_confirms(s, a, confirm, o) ==
    CASE a.kind \in {"Enter", "Quit"} -> execute_confirmed_action(s, confirm, o)
      [] a.kind = "Back" -> go_back(s)
      [] OTHER -> s

handle_confirm_action(s, a, confirm, o) ==
    CASE a.kind = "Enter" -> execute_confirmed_action(s, confirm, o)
      [] a.kind \in {"Back", "Quit"} -> go_back(s)
      [] OTHER -> s

\* a handle_event without the global help toggle: Help is dispatched like any action
handle_event_without_toggle(s, a, o) ==
    IF s.show_help THEN [s EXCEPT !.show_help = FALSE]
    ELSE IF IsConfirm(s.current_view)
    THEN handle_confirm_action(s, a, ConfirmOf(s.current_view), o)
    ELSE IF IsInput(s.current_view)
    THEN handle_input_action(s, a, ModeOf(s.current_view), o)
    ELSE CASE s.current_view = AuthRequired -> handle_auth_required_action(s, a)
           [] s.current_view = SecretsList -> handle_secrets_list_action(s, a, o)
           [] s.current_view = SecretDetail -> handle_secret_detail_action(s, a, o)
           [] s.current_view = ProjectSelector -> handle_project_selector_action(s, a, o)
           [] OTHER -> s

\* a handle_event that closes the overlay and dispatches the action all the same
handle_event_through_overlay(s, a, o) ==
    IF a.kind = "Help" THEN [s EXCEPT !.show_help = ~@]
    ELSE LET u == [s EXCEPT !.show_help = FALSE]
         IN  IF IsConfirm(u.current_view)
             THEN handle_confirm_action(u, a, ConfirmOf(u.current_view), o)
             ELSE IF IsInput(u.current_view)
             THEN handle_input_action(u, a, ModeOf(u.current_view), o)
             ELSE CASE u.current_view = AuthRequired -> handle_auth_required_action(u, a)
                    [] u.current_view = SecretsList -> handle_secrets_list_action(u, a, o)
                    [] u.current_view = SecretDetail -> handle_secret_detail_action(u, a, o)
                    [] u.current_view = ProjectSelector ->
                           handle_project_selector_action(u, a, o)
                    [] OTHER -> u

handle_event(s, a, o) ==
    IF a.kind = "Help" THEN [s EXCEPT !.show_help = ~@]
    ELSE IF s.show_help THEN [s EXCEPT !.show_help = FALSE]
    ELSE IF IsConfirm(s.current_view)
    THEN handle_confirm_action(s, a, ConfirmOf(s.current_view), o)
    ELSE IF IsInput(s.current_view)
    THEN handle_input_action(s, a, ModeOf(s.current_view), o)
    ELSE CASE s.current_view = AuthRequired -> handle_auth_required_action(s, a)
           [] s.current_view = SecretsList -> handle_secrets_list_action(s, a, o)
           [] s.current_view = SecretDetail -> handle_secret_detail_action(s, a, o)
           [] s.current_view = ProjectSelector -> handle_project_selector_action(s, a, o)
           [] OTHER -> s

\* ---------------------------------------------------------------- main loop

\* App::new(project_id)
new(arg) ==
    [project_id |-> IF IsSome(arg) THEN Unwrap(arg) ELSE "",
     client |-> None,
     current_view |-> IF IsSome(arg) THEN SecretsList ELSE ProjectSelector,
     previous_view |-> None, is_loading |-> FALSE, status |-> None,
     secrets |-> <<>>, secrets_state |-> None, current_secret |-> None,
     versions |-> <<>>, versions_state |-> None, revealed_value |-> None,
     input_buffer |-> <<>>, cursor_position |-> 0, show_help |-> FALSE,
     available_projects |-> <<>>, projects_state |-> None,
     pc |-> "start", result |-> None, calls |-> <<>>]

\* run_app before its loop: the initial load, or AuthRequired without credentials
run_app_start(s, has_gcp_credentials, o) ==
    LET t == IF has_gcp_credentials
             THEN CASE s.current_view = SecretsList -> load_secrets(s, o)
                    [] s.current_view = ProjectSelector -> load_projects(s, o)
                    [] OTHER -> s
             ELSE [s EXCEPT !.current_view = AuthRequired]
    IN  Then(t, LAMBDA x : [x EXCEPT !.pc = "loop"])

\* one iteration of run_app's loop on the event `a`
run_app_loop(s, a, o) ==
    LET t == handle_event(s, a, o)
    IN  Then(t, LAMBDA x :
            IF x.result = Some("Quit") THEN [x EXCEPT !.pc = "quit"]
            ELSE IF x.result = Some("RunGcloudAuth") THEN [x EXCEPT !.pc = "auth"]
            ELSE x)

\* run_gcloud_auth: the subprocess succeeded, exited non-zero, or could not be run
run_gcloud_auth(s, how, o) ==
    LET t == CASE how = "success" -> on_auth_success(s, o)
               [] how = "failed" -> on_auth_failure(s, None)
               [] OTHER -> on_auth_failure(s, Some("error"))
    IN  Then(t, LAMBDA x : [x EXCEPT !.pc = "loop"])

\* ---------------------------------------------------------------- environment

\* the external operations of a step that yield a value the step reads
MutationOps == {"create_secret", "add_version", "delete_secret", "destroy_version",
                "access_version", "enable_version", "disable_version"}

\* every outcome of the external calls that appear in `log`
OutcomesOf(log) ==
    LET ops == {log[i].op : i \in 1..Len(log)}
        Results(used, S) == IF used \in ops THEN {None} \cup {Some(x) : x \in S} ELSE {None}
    IN  {Outcome(n, ls, lv, lp, op, cl) :
            n \in IF "new" \in ops THEN BOOLEAN ELSE {TRUE},
            ls \in Results("list_secrets", SecretLists),
            lv \in Results("list_versions", VersionLists),
            lp \in Results("list_projects", ProjectLists),
            op \in IF ops \cap MutationOps /= {} THEN BOOLEAN ELSE {TRUE},
            cl \in IF "clipboard" \in ops THEN {"ok", "failed", "unavailable"} ELSE {"ok"}}

\* the outcome in which every external call succeeds: it issues every call a step can
AllOk == Outcome(TRUE, Some(<<>>), Some(<<>>), Some(<<>>), TRUE, "ok")

\* ---------------------------------------------------------------- specification

\* the projects gsmtui may be started with (-p)
StartProjects == {ProjectIds[1]}

Init ==
    \E arg \in {None} \cup {Some(p) : p \in StartProjects} :
        LET s == new(arg)
        IN  /\ project_id = s.project_id
            /\ client = s.client
            /\ current_view = s.current_view
            /\ previous_view = s.previous_view
            /\ is_loading = s.is_loading
            /\ status = s.status
            /\ secrets = s.secrets
            /\ secrets_state = s.secrets_state
            /\ current_secret = s.current_secret
            /\ versions = s.versions
            /\ versions_state = s.versions_state
            /\ revealed_value = s.revealed_value
            /\ input_buffer = s.input_buffer
            /\ cursor_position = s.cursor_position
            /\ show_help = s.show_help
            /\ available_projects = s.available_projects
            /\ projects_state = s.projects_state
            /\ pc = s.pc
            /\ handling = None
            /\ in_flight = <<>>
            /\ listed_for = None

Startup ==
    /\ pc = "start"
    /\ \E has_gcp_credentials \in BOOLEAN :
           \E o \in OutcomesOf(run_app_start(App, has_gcp_credentials, AllOk).calls) :
               Becomes(run_app_start(App, has_gcp_credentials, o))

GcloudAuth ==
    /\ pc = "auth"
    /\ \E how \in {"success", "failed", "error"} :
           \E o \in OutcomesOf(run_gcloud_auth(App, how, AllOk).calls) :
               Becomes(run_gcloud_auth(App, how, o))

\* the Actions some handler answers with an external call; the others are handled
\* locally, whatever the view
CallingKinds == {"Enter", "Refresh", "Copy", "ToggleSecretValue", "Enable", "Disable",
                 "OpenProjectSelector"}

\* the event source yields `a` and run_app handles it
Handle(a) ==
    /\ pc = "loop"
    /\ IF a.kind \in CallingKinds
       THEN \E o \in OutcomesOf(run_app_loop(App, a, AllOk).calls) :
               LET t == run_app_loop(App, a, o)
               IN  /\ CharCount(t.input_buffer) <= MaxInput
                   /\ Becomes(t)
       ELSE LET t == run_app_loop(App, a, NoOutcome)
               IN  /\ CharCount(t.input_buffer) <= MaxInput
                   /\ Becomes(t)

Quit == Handle(Act("Quit"))
Up == Handle(Act("Up"))
Down == Handle(Act("Down"))
Top == Handle(Act("Top"))
Bottom == Handle(Act("Bottom"))
Enter == Handle(Act("Enter"))
Back == Handle(Act("Back"))
Refresh == Handle(Act("Refresh"))
NewSecret == Handle(Act("NewSecret"))
NewVersion == Handle(Act("NewVersion"))
Delete == Handle(Act("Delete"))
Copy == Handle(Act("Copy"))
ToggleSecretValue == Handle(Act("ToggleSecretValue"))
Help == Handle(Act("Help"))
Enable == Handle(Act("Enable"))
Disable == Handle(Act("Disable"))
OpenProjectSelector == Handle(Act("OpenProjectSelector"))
CharInput == \E c \in InputChars : Handle(Char(c))
Backspace == Handle(Act("Backspace"))
CursorLeft == Handle(Act("CursorLeft"))
CursorRight == Handle(Act("CursorRight"))

Next ==
    \/ Startup
    \/ GcloudAuth
    \/ Quit
    \/ Up
    \/ Down
    \/ Top
    \/ Bottom
    \/ Enter
    \/ Back
    \/ Refresh
    \/ NewSecret
    \/ NewVersion
    \/ Delete
    \/ Copy
    \/ ToggleSecretValue
    \/ Help
    \/ Enable
    \/ Disable
    \/ OpenProjectSelector
    \/ CharInput
    \/ Backspace
    \/ CursorLeft
    \/ CursorRight

Spec == Init /\ [][Next]_vars

\* ---------------------------------------------------------------- typing

\* the most characters typed into the input dialog under SpecTyping
MaxTyped == 3

\* the characters typed under SpecTyping, as UTF-8 bytes: 'a', '-', 'é'
TypedChars == {<<97>>, <<45>>, <<195, 169>>}

\* the event source yields `a` to the input dialog or to the view that opens it
Type(a) ==
    /\ pc = "loop"
    /\ IF a.kind \in CallingKinds
       THEN \E o \in OutcomesOf(run_app_loop(App, a, AllOk).calls) :
               LET t == run_app_loop(App, a, o)
               IN  /\ CharCount(t.input_buffer) <= MaxTyped
                   /\ Becomes(t)
       ELSE LET t == run_app_loop(App, a, NoOutcome)
               IN  /\ CharCount(t.input_buffer) <= MaxTyped
                   /\ Becomes(t)

TypeChar == \E c \in TypedChars : Type(Char(c))
TypeBackspace == Type(Act("Backspace"))
TypeCursorLeft == Type(Act("CursorLeft"))
TypeCursorRight == Type(Act("CursorRight"))
TypeEnter == Type(Act("Enter"))
TypeBack == Type(Act("Back"))
TypeNewSecret == Type(Act("NewSecret"))
TypeNewVersion == Type(Act("NewVersion"))

TypingNext ==
    \/ Startup
    \/ GcloudAuth
    \/ TypeChar
    \/ TypeBackspace
    \/ TypeCursorLeft
    \/ TypeCursorRight
    \/ TypeEnter
    \/ TypeBack
    \/ TypeNewSecret
    \/ TypeNewVersion

\* gsmtui driven by the keys of the input dialogs only, with longer inputs
SpecTyping == Init /\ [][TypingNext]_vars

\* ---------------------------------------------------------------- navigation

\* the longest list shown under SpecNavigation
MaxListed == 3

\* the ids of the entries listed under SpecNavigation, in the order they are listed
ListedIds == <<"n1", "n2", "n3", "n4">>

\* the first n listed ids
Listed(n) == SubSeq(ListedIds, 1, IF n < Len(ListedIds) THEN n ELSE Len(ListedIds))

\* the App in front of a freshly loaded list of n entries: the secrets of the start
\* project, the versions of its first secret (in the states `st`), or the projects
\* offered at startup
FreshList(which, n, st) ==
    LET ids == Listed(n)
        secrets_of(q) == [i \in 1..Len(q) |-> [short_name |-> q[i]]]
        with(ls, lv, lp) == Outcome(TRUE, ls, lv, lp, TRUE, "ok")
        listing == run_app_start(new(Some(ProjectIds[1])), TRUE,
                                 with(Some(secrets_of(IF which = "secrets" THEN ids
                                                      ELSE Listed(1))), None, None))
    IN  CASE which = "secrets" -> listing
          [] which = "versions" ->
                 run_app_loop(listing, Act("Enter"),
                              with(None, Some([i \in 1..Len(ids) |->
                                                  [version |-> ids[i], state |-> st[i]]]), None))
          [] OTHER ->
                 run_app_start(new(None), TRUE,
                               with(None, None, Some([i \in 1..Len(ids) |->
                                                         [project_id |-> ids[i]]])))

NavigationInit ==
    \E which \in {"secrets", "versions", "projects"} : \E n \in 0..MaxListed :
        \E st \in [1..n -> IF which = "versions" THEN VersionStates ELSE {"Enabled"}] :
            LET s == FreshList(which, n, st)
            IN  /\ project_id = s.project_id
                /\ client = s.client
                /\ current_view = s.current_view
                /\ previous_view = s.previous_view
                /\ is_loading = s.is_loading
                /\ status = Shown(s.status)
                /\ secrets = s.secrets
                /\ secrets_state = s.secrets_state
                /\ current_secret = s.current_secret
                /\ versions = s.versions
                /\ versions_state = s.versions_state
                /\ revealed_value = s.revealed_value
                /\ input_buffer = s.input_buffer
                /\ cursor_position = s.cursor_position
                /\ show_help = s.show_help
                /\ available_projects = s.available_projects
                /\ projects_state = s.projects_state
                /\ pc = s.pc
            /\ handling = None
            /\ in_flight = <<>>
            /\ listed_for = None

\* the event source yields the navigation key `a`
Navigate(a) ==
    /\ pc = "loop"
    /\ Becomes(run_app_loop(App, a, NoOutcome))

NavigateUp == Navigate(Act("Up"))
NavigateDown == Navigate(Act("Down"))
NavigateTop == Navigate(Act("Top"))
NavigateBottom == Navigate(Act("Bottom"))

NavigationNext ==
    \/ NavigateUp
    \/ NavigateDown
    \/ NavigateTop
    \/ NavigateBottom

\* gsmtui in front of one freshly loaded list, driven by the navigation keys only
SpecNavigation == NavigationInit /\ [][NavigationNext]_vars

\* ---------------------------------------------------------------- naming

\* the most characters of the short names submitted under SpecNaming
MaxNamed == 3

\* the characters of the names submitted under SpecNaming, as UTF-8 bytes:
\* 'a', '1', '_', '-', 'é'
NamedChars == {<<97>>, <<49>>, <<95>>, <<45>>, <<195, 169>>}

\* the bytes of a sequence of characters
RECURSIVE Bytes(_)
Bytes(chars) == IF chars = <<>> THEN <<>> ELSE Head(chars) \o Bytes(Tail(chars))

\* the character c, n times
Repeated(c, n) == [i \in 1..(n * Len(c)) |-> c[((i - 1) % Len(c)) + 1]]

\* the names submitted under SpecNaming: every short name, and names of one
\* character repeated up to, and just past, the length limit in characters and
\* in bytes
SubmittedNames ==
    {Bytes(q) : q \in UNION {[1..n -> NamedChars] : n \in 0..MaxNamed}}
    \cup {Repeated(c, n) : c \in {<<97>>, <<195, 169>>},
                           n \in {NameLimit \div 2, NameLimit \div 2 + 1, NameLimit,
                                  NameLimit + 1}}

\* the new-secret dialog, opened from the list of the start project's secrets,
\* holds a typed name with the cursor at its end
NamingInit ==
    \E name \in SubmittedNames : \E listed \in SecretLists :
        LET listing == run_app_start(new(Some(ProjectIds[1])), TRUE,
                                     Outcome(TRUE, Some(listed), None, None, TRUE, "ok"))
            s == [run_app_loop(listing, Act("NewSecret"), NoOutcome) EXCEPT
                     !.input_buffer = name, !.cursor_position = CharCount(name)]
        IN  /\ project_id = s.project_id
            /\ client = s.client
            /\ current_view = s.current_view
            /\ previous_view = s.previous_view
            /\ is_loading = s.is_loading
            /\ status = Shown(s.status)
            /\ secrets = s.secrets
            /\ secrets_state = s.secrets_state
            /\ current_secret = s.current_secret
            /\ versions = s.versions
            /\ versions_state = s.versions_state
            /\ revealed_value = s.revealed_value
            /\ input_buffer = s.input_buffer
            /\ cursor_position = s.cursor_position
            /\ show_help = s.show_help
            /\ available_projects = s.available_projects
            /\ projects_state = s.projects_state
            /\ pc = s.pc
            /\ handling = None
            /\ in_flight = <<>>
            /\ listed_for = None

\* Enter submits the typed name
Submit ==
    /\ pc = "loop"
    /\ current_view = Input(NewSecretName)
    /\ \E o \in OutcomesOf(run_app_loop(App, Act("Enter"), AllOk).calls) :
           Becomes(run_app_loop(App, Act("Enter"), o))

NamingNext ==
    \/ Submit

\* gsmtui with a name typed into the new-secret dialog, about to be submitted
SpecNaming == NamingInit /\ [][NamingNext]_vars

\* ---------------------------------------------------------------- calls in flight

\* every Action the event source can hand to handle_event
Actions == {Act(k) : k \in PlainActions} \cup {Char(c) : c \in InputChars}

\* the Actions that move the help overlay or the cursor of the text editor, and no
\* more: the steps followed call by call are those of the other Actions
OverlayKinds == {"Help", "CursorLeft", "CursorRight", "Top", "Bottom"}

\* what run_app can begin where it is: the start with or without credentials, an
\* Action of the loop, gcloud ending in success, a non-zero exit or an error
Begun ==
    CASE pc = "start" -> BOOLEAN
      [] pc = "auth" -> {"success", "failed", "error"}
      [] pc = "loop" -> {a \in Actions : a.kind \notin OverlayKinds}
      [] OTHER -> {}

\* the App at the end of the step begun on `arg`, its calls answered by `o`
Ends(arg, o) ==
    CASE pc = "start" -> run_app_start(App, arg, o)
      [] pc = "auth" -> run_gcloud_auth(App, arg, o)
      [] OTHER -> run_app_loop(App, arg, o)

\* the step begun on `arg` issues an external call, if nothing fails before it
Calling(arg) == Ends(arg, AllOk).calls /= <<>>

\* the outcomes o as far as they are known before the step returns: which calls
\* succeed; what the listings hold is read when the step returns
Answered(o) ==
    LET answered(r) == IF IsSome(r) THEN Some(<<>>) ELSE None
    IN  [o EXCEPT !.list_secrets = answered(@), !.list_versions = answered(@),
                  !.list_projects = answered(@)]

\* run_app begins a step that issues calls, which are now to do in the order of
\* the step's log; it begins the next step when this one has returned
\* (handle_event(action).await in the loop)
Dispatch ==
    /\ IsNone(handling)
    /\ \E arg \in {x \in Begun : pc = "loop" => x.kind \in CallingKinds} :
           /\ Calling(arg)
           /\ \E o \in {Answered(x) : x \in OutcomesOf(Ends(arg, AllOk).calls)} :
                  handling' = Some([arg |-> arg, o |-> o, todo |-> Ends(arg, o).calls])
    /\ UNCHANGED <<fields, in_flight, listed_for>>

\* run_app handles an Action that is answered without a call
Local ==
    /\ IsNone(handling)
    /\ \E arg \in Begun :
           LET t == Ends(arg, AllOk)
           IN  /\ t.calls = <<>>
               /\ CharCount(t.input_buffer) <= MaxInput
               /\ Becomes(t)

\* a handler that goes on while the call it issued is still in flight
Spawned == TRUE

\* .await: the handler goes on when the call it issued has returned
Awaited == in_flight = <<>>

\* the handler reaches its next call and issues it
CallIssued ==
    /\ IsSome(handling)
    /\ Awaited
    /\ Unwrap(handling).todo /= <<>>
    /\ in_flight' = Append(in_flight, Head(Unwrap(handling).todo))
    /\ handling' = Some([Unwrap(handling) EXCEPT !.todo = Tail(@)])
    /\ UNCHANGED <<fields, listed_for>>

\* a call in flight returns
CallReturns ==
    /\ \E i \in 1..Len(in_flight) :
           in_flight' = SubSeq(in_flight, 1, i - 1) \o SubSeq(in_flight, i + 1, Len(in_flight))
    /\ UNCHANGED <<fields, handling, listed_for>>

\* the handler has issued its last call and returns to run_app
HandlerReturns ==
    /\ IsSome(handling)
    /\ Awaited
    /\ Unwrap(handling).todo = <<>>
    /\ \E o \in OutcomesOf(Ends(Unwrap(handling).arg, AllOk).calls) :
           /\ Answered(o) = Unwrap(handling).o
           /\ CharCount(Ends(Unwrap(handling).arg, o).input_buffer) <= MaxInput
           /\ Settles(Ends(Unwrap(handling).arg, o))
    /\ handling' = None
    /\ UNCHANGED <<in_flight, listed_for>>

CallsNext ==
    \/ Dispatch
    \/ Local
    \/ CallIssued
    \/ CallReturns
    \/ HandlerReturns

\* gsmtui with every external call of a step issued and returned in steps of its own
SpecCalls == Init /\ [][CallsNext]_vars

\* ---------------------------------------------------------------- listings

\* the secret whose listing the versions cache holds once the step that made t of
\* the App, under the outcomes o, has returned: load_versions stores the listing of
\* the secret it asked for (self.versions = versions), select_project clears the
\* cache, and nothing else writes it
ListedFor(t, o) ==
    LET asked == {i \in 1..Len(t.calls) : t.calls[i].op = "list_versions"}
    IN  IF asked /= {} /\ IsSome(o.list_versions)
        THEN Some(t.calls[CHOOSE i \in asked : \A j \in asked : j <= i].secret)
        ELSE IF t.project_id /= project_id THEN None
        ELSE listed_for

\* run_app takes a step, and the history of the versions cache follows it
Listing ==
    /\ \E arg \in Begun : \E o \in OutcomesOf(Ends(arg, AllOk).calls) :
           LET t == Ends(arg, o)
           IN  /\ CharCount(t.input_buffer) <= MaxInput
               /\ Settles(t)
               /\ listed_for' = ListedFor(t, o)
    /\ UNCHANGED <<handling, in_flight>>

ListingNext ==
    \/ Listing

\* gsmtui with the history of its versions cache
SpecListing == Init /\ [][ListingNext]_vars

\* ---------------------------------------------------------------- steps

\* the outcomes the environment can give the step that handles `a` now
Outcomes(a) ==
    IF a.kind \in CallingKinds THEN OutcomesOf(run_app_loop(App, a, AllOk).calls)
    ELSE {NoOutcome}

\* the Actions outside CallingKinds issue no external call
LocalKindsIssueNoCall ==
    pc = "loop" =>
        \A a \in Actions : a.kind \notin CallingKinds =>
            run_app_loop(App, a, AllOk).calls = <<>>

\* the App after run_app has handled `a` with the outcomes `o`
After(a, o) == run_app_loop(App, a, o)

\* the operations a step issued
Ops(t) == {t.calls[i].op : i \in 1..Len(t.calls)}

\* the step t had a load_secrets or a load_projects that failed under outcomes o
LoadFailed(t, o) ==
    \/ "new" \in Ops(t) /\ ~o.new
    \/ "list_secrets" \in Ops(t) /\ IsNone(o.list_secrets)
    \/ "list_projects" \in Ops(t) /\ IsNone(o.list_projects)

\* the secret the cursor of the secrets list is on: Some(SecretInfo) or None
SelectedSecret == IF IsSome(secrets_state) THEN Get(secrets, Unwrap(secrets_state)) ELSE None

\* the project the cursor of the project selector is on: Some(ProjectInfo) or None
SelectedProject ==
    IF IsSome(projects_state) THEN Get(available_projects, Unwrap(projects_state)) ELSE None

\* ---------------------------------------------------------------- C1

\* C1: whenever load_secrets or load_projects fails (client construction or the
\* list call), current_view is AuthRequired once the step that triggered the load
\* has been handled: at startup, after authentication, and for every action.
C1_FailedLoadEscalates ==
    /\ pc = "start" =>
           \A creds \in BOOLEAN :
               \A o \in OutcomesOf(run_app_start(App, creds, AllOk).calls) :
                   LET t == run_app_start(App, creds, o)
                   IN  LoadFailed(t, o) => t.current_view = AuthRequired
    /\ pc = "auth" =>
           \A o \in OutcomesOf(run_gcloud_auth(App, "success", AllOk).calls) :
               LET t == run_gcloud_auth(App, "success", o)
               IN  LoadFailed(t, o) => t.current_view = AuthRequired
    /\ pc = "loop" =>
           \A a \in Actions : \A o \in Outcomes(a) :
               LET t == After(a, o)
               IN  LoadFailed(t, o) => t.current_view = AuthRequired

\* ---------------------------------------------------------------- C2

\* C2: no secret-client call is ever attempted while the client handle is absent
\* (the attempt is self.client.as_ref().unwrap() on None, which panics).
C2_NoCallWithoutClient == pc /= "panic"

\* ---------------------------------------------------------------- C3

\* the views that show or act on the open secret
ShowsDetail(view) ==
    \/ view = SecretDetail
    \/ view = Input(NewVersionValue)
    \/ IsConfirm(view) /\ view[2] = "DestroyVersion"

\* C3: whenever current_view is SecretDetail, Input(NewVersionValue) or
\* Confirm(DestroyVersion), current_secret is present.
C3_DetailHasSecret == ShowsDetail(current_view) => IsSome(current_secret)

\* the detail view of a secret, come back to from a dialog or from the selector
C3_Witness ==
    /\ current_view = SecretDetail
    /\ IsNone(previous_view)
    /\ IsSome(current_secret)
    /\ available_projects /= <<>>

\* ---------------------------------------------------------------- C4

\* C4: whenever a value is revealed, a version is selected and its cached state
\* is Enabled or Unknown.
C4_RevealedIsAccessible ==
    IsSome(revealed_value) =>
        /\ IsSome(SelectedVersion(App))
        /\ Unwrap(SelectedVersion(App)).state \in {"Enabled", "Unknown"}

\* ---------------------------------------------------------------- C5

\* C5: is_loading is false whenever a step of run_app has returned (startup load,
\* handle_event, on_auth_success / on_auth_failure), on every path.
C5_NotLoadingAfterReturn == pc /= "panic" => ~is_loading

\* a list_secrets call has failed and escalated, and the busy flag is clear
C5_Witness ==
    /\ pc = "loop"
    /\ current_view = AuthRequired
    /\ status = Some([text |-> "", is_error |-> TRUE])
    /\ IsSome(client)
    /\ ~is_loading

\* ---------------------------------------------------------------- C6

\* the detail context: SecretDetail, or a dialog opened from it
InDetailContext ==
    \/ current_view = SecretDetail
    \/ /\ current_view[1] \in {"Input", "Confirm", "ProjectSelector"}
       /\ previous_view = Some(SecretDetail)

\* C6: current_secret is present if and only if the current view is SecretDetail
\* or a dialog opened from it; in particular it is absent in SecretsList.
C6_SecretIffDetail == IsSome(current_secret) <=> InDetailContext

\* ---------------------------------------------------------------- C7

\* the delete_secret and destroy_version calls a step issued, as targets
Destructions(t) ==
    {<<t.calls[i].op, t.calls[i].secret, t.calls[i].version>> :
        i \in {j \in 1..Len(t.calls) : t.calls[j].op \in {"delete_secret", "destroy_version"}}}

\* the call that executes the confirmed action `confirm`, as a target
TargetOf(confirm) ==
    IF confirm[1] = "DeleteSecret" THEN <<"delete_secret", confirm[2], "">>
    ELSE <<"destroy_version", confirm[2], confirm[3]>>

\* C7: (1) Delete opens Confirm(a) with a carrying the secret (and version) selected
\* at that moment; (2) while Confirm(a) is current the selection a was taken from
\* does not move, and every action either leaves Confirm(a) as it is or leaves the
\* Confirm view; (3) Enter in Confirm(a) issues delete_secret / destroy_version on
\* exactly a's payload, and no other step issues such a call.
C7_ConfirmTargetsPayload ==
    /\ pc = "loop" /\ ~show_help /\ current_view = SecretsList /\ IsSome(SelectedSecret) =>
           After(Act("Delete"), NoOutcome).current_view
               = Confirm(DeleteSecret(Unwrap(SelectedSecret).short_name))
    /\ pc = "loop" /\ ~show_help /\ current_view = SecretDetail
          /\ IsSome(SelectedVersion(App)) =>
           After(Act("Delete"), NoOutcome).current_view
               = Confirm(DestroyVersion(Unwrap(current_secret).short_name,
                                        Unwrap(SelectedVersion(App)).version))
    /\ IsConfirm(current_view) /\ current_view[2] = "DeleteSecret" =>
           /\ IsSome(SelectedSecret)
           /\ current_view = Confirm(DeleteSecret(Unwrap(SelectedSecret).short_name))
    /\ IsConfirm(current_view) /\ current_view[2] = "DestroyVersion" =>
           /\ IsSome(SelectedVersion(App))
           /\ current_view = Confirm(DestroyVersion(Unwrap(current_secret).short_name,
                                                    Unwrap(SelectedVersion(App)).version))
    /\ pc = "loop" =>
           \A a \in Actions : \A o \in Outcomes(a) :
               LET t == After(a, o)
               IN  /\ IsConfirm(current_view) =>
                       \/ ~IsConfirm(t.current_view)
                       \/ /\ t.current_view = current_view
                          /\ t.secrets = secrets /\ t.secrets_state = secrets_state
                          /\ t.versions = versions /\ t.versions_state = versions_state
                          /\ t.current_secret = current_secret
                   /\ IsConfirm(current_view) /\ ~show_help /\ a.kind = "Enter" =>
                       Destructions(t) = {TargetOf(ConfirmOf(current_view))}
                   /\ Destructions(t) /= {} =>
                       /\ IsConfirm(current_view) /\ ~show_help /\ a.kind = "Enter"
                       /\ Destructions(t) = {TargetOf(ConfirmOf(current_view))}

\* the second secret of the list is pending deletion, and Enter deletes exactly it
C7_Witness ==
    /\ pc = "loop" /\ ~show_help
    /\ current_view = Confirm(DeleteSecret(SecretNames[2]))
    /\ secrets_state = Some(1)
    /\ Destructions(After(Act("Enter"), AllOk)) = {<<"delete_secret", SecretNames[2], "">>}

\* ---------------------------------------------------------------- C8

\* the message a reveal or copy of a version in `state` is rejected with
RejectedAccess(kind, state) ==
    IF state = "Disabled" THEN "Version is disabled - press 'e' to enable it first"
    ELSE IF kind = "Copy" THEN "Cannot copy destroyed version - data is permanently gone"
    ELSE "Cannot access destroyed version - data is permanently gone"

\* the detail view takes the next action, and the cursor is on a version in `states`
DetailOn(states) ==
    /\ pc = "loop" /\ ~show_help /\ current_view = SecretDetail
    /\ IsSome(SelectedVersion(App))
    /\ Unwrap(SelectedVersion(App)).state \in states

\* C8: ToggleSecretValue with nothing revealed, and Copy, on a selected version
\* whose cached state is Destroyed or Disabled: the step sets the error status
\* ("permanently gone" for Destroyed, "enable it first" for Disabled), issues no
\* call, stays in SecretDetail and leaves revealed_value absent.
C8_AccessGuardRejects ==
    DetailOn({"Destroyed", "Disabled"}) =>
        \A a \in {Act("ToggleSecretValue"), Act("Copy")} : \A o \in Outcomes(a) :
            (a.kind = "Copy" \/ IsNone(revealed_value)) =>
                LET t == After(a, o)
                IN  /\ t.status = Some([text |-> RejectedAccess(
                                                     a.kind, Unwrap(SelectedVersion(App)).state),
                                        is_error |-> TRUE])
                    /\ t.calls = <<>>
                    /\ t.pc = "loop"
                    /\ t.current_view = SecretDetail
                    /\ IsNone(revealed_value) => IsNone(t.revealed_value)

\* a reveal has just been rejected on a destroyed version, and a copy would be too
C8_Witness ==
    /\ DetailOn({"Destroyed"})
    /\ IsNone(revealed_value)
    /\ status = Some([text |-> "", is_error |-> TRUE])
    /\ After(Act("ToggleSecretValue"), NoOutcome).status
           = Some([text |-> "Cannot access destroyed version - data is permanently gone",
                   is_error |-> TRUE])
    /\ After(Act("Copy"), NoOutcome).calls = <<>>

\* ---------------------------------------------------------------- C9

\* the step t left the view and the caches of the pre-state as they were
KeepsViewAndCaches(t) ==
    /\ t.current_view = current_view /\ t.previous_view = previous_view
    /\ t.secrets = secrets /\ t.secrets_state = secrets_state
    /\ t.current_secret = current_secret
    /\ t.versions = versions /\ t.versions_state = versions_state
    /\ t.revealed_value = revealed_value
    /\ t.available_projects = available_projects /\ t.projects_state = projects_state

\* the state a version must be cached in for the call `op`
RequiredState(op) == IF op = "enable_version" THEN "Disabled" ELSE "Enabled"

\* C9: a step issues enable_version only for Enable on a selected version cached
\* as Disabled, and disable_version only for Disable on one cached as Enabled, on
\* that very version; in every other state of the selected version Enable / Disable
\* sets an error status, issues no call and leaves the view and the caches.
C9_EnableDisableGuard ==
    pc = "loop" =>
        \A a \in Actions : \A o \in Outcomes(a) :
            LET t == After(a, o)
                version == SelectedVersion(App)
            IN  /\ \A i \in 1..Len(t.calls) :
                       t.calls[i].op \in {"enable_version", "disable_version"} =>
                           /\ a.kind = (IF t.calls[i].op = "enable_version"
                                        THEN "Enable" ELSE "Disable")
                           /\ DetailOn({RequiredState(t.calls[i].op)})
                           /\ t.calls[i].secret = Unwrap(current_secret).short_name
                           /\ t.calls[i].version = Unwrap(version).version
                /\ \A k \in {"Enable", "Disable"} :
                       /\ a.kind = k
                       /\ DetailOn(VersionStates \ {RequiredState(
                              IF k = "Enable" THEN "enable_version" ELSE "disable_version")})
                       => /\ t.status = Some([text |-> IF k = "Enable"
                                                       THEN "Can only enable disabled versions"
                                                       ELSE "Can only disable enabled versions",
                                              is_error |-> TRUE])
                          /\ t.calls = <<>>
                          /\ t.pc = "loop"
                          /\ KeepsViewAndCaches(t)

\* Enable is being rejected on a version of unknown state, and Disable as well
C9_Witness ==
    /\ DetailOn({"Unknown"})
    /\ status = Some([text |-> "", is_error |-> TRUE])
    /\ After(Act("Enable"), AllOk).status
           = Some([text |-> "Can only enable disabled versions", is_error |-> TRUE])
    /\ After(Act("Disable"), AllOk).calls = <<>>

\* ---------------------------------------------------------------- C10

\* C10: Enter in ProjectSelector on a project other than the active one: project_id
\* becomes it, versions is emptied, current_secret, revealed_value and previous_view
\* become absent, the old client is dropped, and load_secrets runs for the new
\* project: a client is built for it and list_secrets goes through that client;
\* secrets holds what it returned (nothing if the load failed) and the view is
\* SecretsList (AuthRequired if the load failed, see C1).
C10_SelectDifferentProject ==
    /\ pc = "loop" /\ ~show_help /\ current_view = ProjectSelector
    /\ IsSome(SelectedProject)
    /\ Unwrap(SelectedProject).project_id /= project_id
    => \A o \in Outcomes(Act("Enter")) :
           LET t == After(Act("Enter"), o)
               id == Unwrap(SelectedProject).project_id
               built == [op |-> "new", secret |-> "", version |-> "", input |-> <<>>,
                         project |-> id, client |-> None]
               listed == [op |-> "list_secrets", secret |-> "", version |-> "",
                          input |-> <<>>, project |-> id, client |-> Some(id)]
               loaded == o.new /\ IsSome(o.list_secrets)
           IN  /\ t.pc = "loop"
               /\ t.project_id = id
               /\ t.versions = <<>> /\ t.versions_state = None
               /\ t.current_secret = None
               /\ t.revealed_value = None
               /\ t.previous_view = None
               /\ t.calls = IF o.new THEN <<built, listed>> ELSE <<built>>
               /\ t.client = IF o.new THEN Some(id) ELSE None
               /\ t.secrets = IF loaded THEN Unwrap(o.list_secrets) ELSE <<>>
               /\ t.secrets_state = IF loaded /\ Unwrap(o.list_secrets) /= <<>>
                                    THEN Some(0) ELSE None
               /\ t.current_view = IF loaded THEN SecretsList ELSE AuthRequired
               /\ ~t.is_loading

\* the second project has been switched to and its secrets are listed
C10_Witness ==
    /\ pc = "loop"
    /\ project_id = ProjectIds[2]
    /\ client = Some(ProjectIds[2])
    /\ current_view = SecretsList
    /\ IsNone(previous_view)
    /\ secrets /= <<>>

\* ---------------------------------------------------------------- C11

\* the view go_back returns to from the current state
PriorView == IF IsSome(previous_view) THEN Unwrap(previous_view) ELSE SecretsList

\* the project selector takes the next action with the cursor on the active project
OnActiveProject ==
    /\ pc = "loop" /\ ~show_help /\ current_view = ProjectSelector
    /\ IsSome(SelectedProject)
    /\ Unwrap(SelectedProject).project_id = project_id

\* C11: Enter in ProjectSelector on the project whose id is the active project_id
\* leaves project_id, secrets, versions, current_secret, revealed_value and the
\* client handle as they were, issues no call, returns to the prior view and sets
\* a status that is not an error.
C11_SameProjectChangesNothing ==
    OnActiveProject =>
        \A o \in Outcomes(Act("Enter")) :
            LET t == After(Act("Enter"), o)
            IN  /\ t.project_id = project_id
                /\ t.secrets = secrets /\ t.versions = versions
                /\ t.current_secret = current_secret
                /\ t.revealed_value = revealed_value
                /\ t.client = client
                /\ t.calls = <<>>
                /\ t.current_view = PriorView
                /\ t.status = Some([text |-> "Already on this project", is_error |-> FALSE])

\* ---------------------------------------------------------------- C12

\* the step t had a client call other than list_secrets / list_projects that failed
OperationFailed(t, o) ==
    \/ Ops(t) \cap MutationOps /= {} /\ ~o.op
    \/ "list_versions" \in Ops(t) /\ IsNone(o.list_versions)

\* C12: when a client call other than list_secrets / list_projects fails, the view
\* after the action is the view before it and the status is an error.
C12_OperationErrorKeepsView ==
    pc = "loop" =>
        \A a \in Actions : \A o \in Outcomes(a) :
            LET t == After(a, o)
            IN  OperationFailed(t, o) =>
                    /\ t.current_view = current_view
                    /\ IsSome(t.status) /\ Unwrap(t.status).is_error

\* ---------------------------------------------------------------- C13

\* the messages of the naming rules a non-empty name can violate
NamingRules ==
    {"Secret name must be 255 characters or less",
     "Secret name must start with a letter",
     "Secret name can only contain letters, digits, underscores, and hyphens",
     "Secret name cannot end with a hyphen"}

\* the input dialog `mode` takes the next action
Typing(mode) == pc = "loop" /\ ~show_help /\ current_view = Input(mode)

C14_EmptyInputRejected ==
    \A mode \in {NewSecretName, NewVersionValue} :
        Typing(mode) /\ input_buffer = <<>> =>
            \A o \in Outcomes(Act("Enter")) :
                LET t == After(Act("Enter"), o)
                IN  /\ t.status = Some([text |-> "Input cannot be empty", is_error |-> TRUE])
                    /\ t.calls = <<>>
                    /\ t.pc = "loop"
                    /\ IsSome(previous_view)
                    /\ t.current_view = Unwrap(previous_view)
                    /\ t.previous_view = None
                    /\ t.input_buffer = <<>> /\ t.cursor_position = 0

\* the new-version dialog is open on an empty buffer and Enter is turned down
C14_Witness ==
    /\ Typing(NewVersionValue)
    /\ input_buffer = <<>>
    /\ previous_view = Some(SecretDetail)
    /\ After(Act("Enter"), AllOk).status
           = Some([text |-> "Input cannot be empty", is_error |-> TRUE])
    /\ After(Act("Enter"), AllOk).current_view = SecretDetail

\* ---------------------------------------------------------------- C15

\* the views whose handler answers Back (or Quit, in Confirm) with go_back
BackGoesBack ==
    /\ pc = "loop" /\ ~show_help
    /\ \/ current_view \in {SecretDetail, ProjectSelector}
       \/ IsInput(current_view)
       \/ IsConfirm(current_view)

\* what go_back makes of the current state: the recorded view, or SecretsList
WentBack(t) ==
    /\ IsSome(previous_view) => t.current_view = Unwrap(previous_view)
    /\ IsNone(previous_view) => t.current_view = SecretsList
    /\ t.previous_view = None
    /\ t.revealed_value = None

\* C15: go_back, when previous_view holds V, makes current_view exactly V and
\* previous_view absent; when previous_view is absent, makes current_view
\* SecretsList; revealed_value is absent afterwards in both cases. Stated of
\* go_back in every reachable state, and of the Back action wherever it goes back.
C15_GoBack ==
    /\ WentBack(go_back(App))
    /\ BackGoesBack => WentBack(After(Act("Back"), NoOutcome))

\* a value is revealed under the new-version dialog, and Back returns to the detail
C15_Witness ==
    /\ BackGoesBack
    /\ IsSome(revealed_value)
    /\ current_view = Input(NewVersionValue)
    /\ previous_view = Some(SecretDetail)
    /\ After(Act("Back"), NoOutcome).current_view = SecretDetail
    /\ IsNone(After(Act("Back"), NoOutcome).revealed_value)

\* ---------------------------------------------------------------- C16

\* the view a dialog is opened from: SecretsList for the new-secret and the
\* delete-secret dialog, SecretDetail for the new-version and the destroy dialog
OpenedFrom(view) ==
    IF view = Input(NewSecretName) \/ (IsConfirm(view) /\ view[2] = "DeleteSecret")
    THEN SecretsList ELSE SecretDetail

\* an Input or Confirm dialog is current
InDialog(view) == IsInput(view) \/ IsConfirm(view)

\* C16: (1) an action that opens an Input or Confirm dialog from a view V in
\* {SecretsList, SecretDetail} records V; (2) while the dialog is current the
\* record is V, the view the dialog was opened from, and no action changes it
\* without closing the dialog; (3) Back in the dialog returns to exactly V, with
\* revealed_value absent, no call issued and the secrets / versions caches as
\* they were.
C16_CancelReturnsToOpener ==
    /\ InDialog(current_view) => previous_view = Some(OpenedFrom(current_view))
    /\ pc = "loop" =>
           \A a \in Actions : \A o \in Outcomes(a) :
               LET t == After(a, o)
               IN  /\ ~InDialog(current_view) /\ InDialog(t.current_view) =>
                       /\ current_view \in {SecretsList, SecretDetail}
                       /\ t.previous_view = Some(current_view)
                       /\ current_view = OpenedFrom(t.current_view)
                   /\ InDialog(current_view) /\ InDialog(t.current_view) =>
                       /\ t.current_view[1] = current_view[1]
                       /\ t.previous_view = previous_view
                   /\ InDialog(current_view) /\ ~show_help /\ a.kind = "Back" =>
                       /\ t.current_view = OpenedFrom(current_view)
                       /\ t.previous_view = None
                       /\ t.revealed_value = None
                       /\ t.calls = <<>>
                       /\ t.secrets = secrets /\ t.secrets_state = secrets_state
                       /\ t.versions = versions /\ t.versions_state = versions_state
                       /\ t.current_secret = current_secret

\* the destroy confirmation is open over the detail view, and Back returns there
C16_Witness ==
    /\ pc = "loop" /\ ~show_help
    /\ IsConfirm(current_view) /\ current_view[2] = "DestroyVersion"
    /\ previous_view = Some(SecretDetail)
    /\ After(Act("Back"), NoOutcome).current_view = SecretDetail
    /\ After(Act("Back"), NoOutcome).versions = versions

\* ---------------------------------------------------------------- C17

\* C17: handling Help, in any view and whether or not the overlay is showing,
\* flips show_help, returns no AppAction (run_app keeps looping), issues no call
\* and leaves every other field of App as it was.
C17_HelpOnlyFlipsOverlay ==
    pc = "loop" =>
        \A o \in Outcomes(Act("Help")) :
            LET t == After(Act("Help"), o)
            IN  /\ t.show_help = ~show_help
                /\ t.result = None
                /\ t.calls = <<>>
                /\ t = [App EXCEPT !.show_help = ~show_help]

\* the overlay is opened over a confirmation dialog, which stays as it is
C17_Witness ==
    /\ pc = "loop" /\ ~show_help
    /\ IsConfirm(current_view)
    /\ After(Act("Help"), NoOutcome).show_help
    /\ After(Act("Help"), NoOutcome).current_view = current_view

\* ---------------------------------------------------------------- C18

\* C18: while show_help is true, handling any action other than Help only sets
\* show_help to false: no AppAction is returned (Quit does not quit, Enter in
\* AuthRequired does not start the authentication), no call is issued and every
\* other field of App is as it was.
C18_OverlaySwallowsAction ==
    pc = "loop" /\ show_help =>
        \A a \in Actions \ {Act("Help")} : \A o \in Outcomes(a) :
            LET t == After(a, o)
            IN  /\ t.result = None
                /\ t.pc = "loop"
                /\ t.calls = <<>>
                /\ t = [App EXCEPT !.show_help = FALSE]

\* the overlay shows over AuthRequired: Enter and Quit only close it
C18_Witness ==
    /\ pc = "loop" /\ show_help
    /\ current_view = AuthRequired
    /\ After(Act("Enter"), AllOk).pc = "loop"
    /\ After(Act("Quit"), AllOk).pc = "loop"
    /\ ~After(Act("Quit"), AllOk).show_help

\* ---------------------------------------------------------------- C19

\* the detail view takes the next action and lists at least one version
DetailWithVersions ==
    pc = "loop" /\ ~show_help /\ current_view = SecretDetail /\ versions /= <<>>

\* C19: after Up, Down, Top or Bottom handled in SecretDetail with a non-empty
\* versions list, revealed_value is absent, whatever it was before.
C19_NavigationHidesValue ==
    DetailWithVersions =>
        \A k \in {"Up", "Down", "Top", "Bottom"} :
            LET t == After(Act(k), NoOutcome)
            IN  /\ t.revealed_value = None
                /\ t.current_view = SecretDetail
                /\ t.calls = <<>>

\* a value is revealed in the detail view and moving the cursor hides it
C19_Witness ==
    /\ DetailWithVersions
    /\ IsSome(revealed_value)
    /\ IsNone(After(Act("Down"), NoOutcome).revealed_value)
    /\ IsNone(After(Act("Top"), NoOutcome).revealed_value)

\* ---------------------------------------------------------------- C20

\* C20: after any step in which load_versions ran (it issued list_versions)
\* revealed_value is absent; in particular it is absent whenever such a reload
\* has changed the versions selection.
C20_ReloadHidesValue ==
    pc = "loop" =>
        \A a \in Actions : \A o \in Outcomes(a) :
            LET t == After(a, o)
            IN  "list_versions" \in Ops(t) =>
                    /\ t.revealed_value = None
                    /\ t.versions_state /= versions_state => t.revealed_value = None

\* ---------------------------------------------------------------- C21

\* C21: Back handled in SecretDetail that lands on SecretsList leaves versions
\* empty and current_secret and revealed_value absent.
C21_LeavingDetailClearsCache ==
    pc = "loop" /\ ~show_help /\ current_view = SecretDetail =>
        LET t == After(Act("Back"), NoOutcome)
        IN  t.current_view = SecretsList =>
                /\ t.versions = <<>>
                /\ t.current_secret = None
                /\ t.revealed_value = None

\* ---------------------------------------------------------------- C22

\* a list view takes the next action
Browsing ==
    /\ pc = "loop" /\ ~show_help
    /\ current_view \in {SecretsList, SecretDetail, ProjectSelector}

\* the length and the selection of the list the view of App record s navigates
ListLen(s) ==
    CASE s.current_view = SecretsList -> Len(s.secrets)
      [] s.current_view = SecretDetail -> Len(s.versions)
      [] OTHER -> Len(s.available_projects)

ListSelection(s) ==
    CASE s.current_view = SecretsList -> s.secrets_state
      [] s.current_view = SecretDetail -> s.versions_state
      [] OTHER -> s.projects_state

\* C22: in each of the three lists, with length n >= 1 and selected index i in
\* [0, n): Down selects (i+1) mod n, Up selects (i-1) mod n, Top selects 0 and
\* Bottom selects n-1.
C22_NavigationWraps ==
    LET n == ListLen(App)
        i == Unwrap(ListSelection(App))
        to(k) == ListSelection(After(Act(k), NoOutcome))
    IN  /\ Browsing
        /\ n >= 1
        /\ IsSome(ListSelection(App))
        /\ i \in 0..(n - 1)
        => /\ to("Down") = Some((i + 1) % n)
           /\ to("Up") = Some((i + n - 1) % n)
           /\ to("Top") = Some(0)
           /\ to("Bottom") = Some(n - 1)

\* the cursor is on the last of three projects: Down wraps to the first
C22_Witness ==
    /\ Browsing
    /\ current_view = ProjectSelector
    /\ Len(available_projects) = 3
    /\ projects_state = Some(2)
    /\ After(Act("Down"), NoOutcome).projects_state = Some(0)
    /\ After(Act("Up"), NoOutcome).projects_state = Some(1)

\* ---------------------------------------------------------------- C23

\* C23: in every reachable state in which the list of the current view is empty,
\* Down, Up, Top and Bottom complete without a panic and leave the selection of
\* that list at none.
C23_EmptyListStaysUnselected ==
    Browsing /\ ListLen(App) = 0 =>
        \A k \in {"Down", "Up", "Top", "Bottom"} :
            LET t == After(Act(k), NoOutcome)
            IN  /\ ~Panicked(t)
                /\ ListSelection(t) = None

\* ---------------------------------------------------------------- C24

\* the App record t is a fresh input session `mode` opened from `view`
FreshSession(t, mode, view) ==
    /\ t.input_buffer = <<>>
    /\ t.cursor_position = 0
    /\ t.previous_view = Some(view)
    /\ t.current_view = Input(mode)

\* C24: NewSecret in SecretsList and NewVersion in SecretDetail empty the input
\* buffer, set the cursor to 0, record the view that was current in previous_view
\* and make Input(NewSecretName) resp. Input(NewVersionValue) the current view;
\* start_new_secret and start_new_version do so from whatever state they are
\* called in, a non-empty buffer included.
C24_StartInputSession ==
    /\ FreshSession(start_new_secret(App), NewSecretName, current_view)
    /\ FreshSession(start_new_version(App), NewVersionValue, current_view)
    /\ pc = "loop" /\ ~show_help /\ current_view = SecretsList =>
           FreshSession(After(Act("NewSecret"), NoOutcome), NewSecretName, SecretsList)
    /\ pc = "loop" /\ ~show_help /\ current_view = SecretDetail =>
           FreshSession(After(Act("NewVersion"), NoOutcome), NewVersionValue, SecretDetail)

\* NewVersion is pressed in the detail view, which has SecretsList on record
C24_Witness ==
    /\ pc = "loop" /\ ~show_help
    /\ current_view = SecretDetail
    /\ previous_view = Some(SecretsList)
    /\ After(Act("NewVersion"), NoOutcome).current_view = Input(NewVersionValue)
    /\ After(Act("NewVersion"), NoOutcome).previous_view = Some(SecretDetail)

\* ---------------------------------------------------------------- C25

\* C25: in every reachable state 0 <= cursor_position <= the number of characters
\* of input_buffer, and no editing step panics; CursorLeft at 0 and CursorRight
\* at the end change nothing.
C25_CursorInRange ==
    /\ pc /= "panic" =>
           /\ 0 <= cursor_position
           /\ cursor_position <= CharCount(input_buffer)
    /\ pc = "loop" /\ ~show_help /\ IsInput(current_view) =>
           /\ \A a \in {Act("Backspace"), Act("CursorLeft"), Act("CursorRight")}
                     \cup {Char(c) : c \in TypedChars} :
                  ~Panicked(After(a, NoOutcome))
           /\ cursor_position = 0 => After(Act("CursorLeft"), NoOutcome) = App
           /\ cursor_position = CharCount(input_buffer) =>
                  After(Act("CursorRight"), NoOutcome) = App

\* the cursor stands between two characters of which the first takes two bytes
C25_Witness ==
    /\ pc = "loop" /\ ~show_help /\ IsInput(current_view)
    /\ input_buffer = <<195, 169, 97>>
    /\ cursor_position = 1
    /\ After(Act("CursorRight"), NoOutcome).cursor_position = 2
    /\ After(Act("CursorRight"), NoOutcome).input_buffer = input_buffer

\* ---------------------------------------------------------------- C26

\* chars().collect(): the characters of a buffer, each as its UTF-8 bytes
Chars(buf) ==
    LET idx == char_indices(buf)
        end(j) == IF j < Len(idx) THEN idx[j + 1] ELSE Len(buf)
    IN  [j \in 1..Len(idx) |-> SubSeq(buf, idx[j] + 1, end(j))]

\* an input dialog takes the next action
Editing == pc = "loop" /\ ~show_help /\ IsInput(current_view)

\* C26: Char(c) with the cursor at character index k yields the characters before
\* k, then c, then the characters from k on, and the cursor k+1: the characters
\* on both sides are unchanged and the length grows by one character.
C26_InputCharInserts ==
    Editing =>
        \A c \in TypedChars :
            LET t == After(Char(c), NoOutcome)
                k == cursor_position
                before == Chars(input_buffer)
            IN  /\ Chars(t.input_buffer)
                       = SubSeq(before, 1, k) \o <<c>> \o SubSeq(before, k + 1, Len(before))
                /\ CharCount(t.input_buffer) = CharCount(input_buffer) + 1
                /\ t.cursor_position = k + 1
                /\ t.current_view = current_view

\* 'a' is typed between 'é' and '-'
C26_Witness ==
    /\ Editing
    /\ input_buffer = <<195, 169, 45>>
    /\ cursor_position = 1
    /\ After(Char(<<97>>), NoOutcome).input_buffer = <<195, 169, 97, 45>>
    /\ After(Char(<<97>>), NoOutcome).cursor_position = 2

\* ---------------------------------------------------------------- C27

\* C27: Backspace with the cursor at 0 leaves buffer and cursor as they were (on
\* an empty buffer too); with the cursor at k > 0 it removes exactly the character
\* at index k-1, keeps the others in order and sets the cursor to k-1; so Char(c)
\* followed by Backspace restores buffer and cursor.
C27_BackspaceRemoves ==
    Editing =>
        LET t == After(Act("Backspace"), NoOutcome)
            k == cursor_position
            before == Chars(input_buffer)
        IN  /\ k = 0 => t = App
            /\ k > 0 =>
                   /\ ~Panicked(t)
                   /\ Chars(t.input_buffer)
                          = SubSeq(before, 1, k - 1) \o SubSeq(before, k + 1, Len(before))
                   /\ t.cursor_position = k - 1
            /\ \A c \in TypedChars :
                   run_app_loop(After(Char(c), NoOutcome), Act("Backspace"), NoOutcome) = App

\* the two-byte 'é' before the cursor is removed whole
C27_Witness ==
    /\ Editing
    /\ input_buffer = <<97, 195, 169, 45>>
    /\ cursor_position = 2
    /\ After(Act("Backspace"), NoOutcome).input_buffer = <<97, 45>>
    /\ After(Act("Backspace"), NoOutcome).cursor_position = 1

\* ---------------------------------------------------------------- C28

\* the rules of a secret's name, by the message that reports their violation
NameRuleHolds(rule, name) ==
    LET chars == Chars(name)
        letter(ch) == Len(ch) = 1 /\ (ch[1] \in 65..90 \/ ch[1] \in 97..122)
        digit(ch) == Len(ch) = 1 /\ ch[1] \in 48..57
    IN  CASE rule = "Secret name cannot be empty" -> Len(chars) > 0
          [] rule = "Secret name must be 255 characters or less" -> Len(chars) <= NameLimit
          [] rule = "Secret name must start with a letter" ->
                 Len(chars) > 0 /\ letter(chars[1])
          [] rule = "Secret name can only contain letters, digits, underscores, and hyphens" ->
                 \A j \in 1..Len(chars) :
                     letter(chars[j]) \/ digit(chars[j]) \/ chars[j] \in {<<95>>, <<45>>}
          [] rule = "Secret name cannot end with a hyphen" ->
                 Len(chars) = 0 \/ chars[Len(chars)] /= <<45>>

\* every rule of a secret's name
NameRules == NamingRules \cup {"Secret name cannot be empty"}

\* validate_secret_name accepts the name if and only if it keeps every rule
AcceptsExactlyValidNames ==
    current_view = Input(NewSecretName) =>
        (IsNone(validate_secret_name(input_buffer))
            <=> \A rule \in NameRules : NameRuleHolds(rule, input_buffer))

\* C28: validate_secret_name accepts a name if and only if it is non-empty, has at
\* most 255 characters, starts with an ASCII letter, contains only ASCII letters,
\* digits, '_' and '-', and does not end with '-'; if it rejects the name, its
\* message is that of a rule the name violates.
C28_ValidateSecretName ==
    /\ AcceptsExactlyValidNames
    /\ current_view = Input(NewSecretName) =>
           LET e == validate_secret_name(input_buffer)
           IN  IsSome(e) => /\ Unwrap(e) \in NameRules
                            /\ ~NameRuleHolds(Unwrap(e), input_buffer)

\* ---------------------------------------------------------------- C29

\* the calls made through the client handle
ClientOps == MutationOps \cup {"list_secrets", "list_versions"}

\* C29: at most one external call is in flight at any time; no call is in flight
\* when run_app is between two steps, so none is pending when the next Action is
\* dispatched; and a call made through the client handle holds the handle the App
\* has when the step returns: no project switch discards it while the call is
\* pending.
C29_OneCallInFlight ==
    /\ Len(in_flight) <= 1
    /\ IsNone(handling) => in_flight = <<>>
    /\ \A i \in 1..Len(in_flight) :
           in_flight[i].op \in ClientOps =>
               /\ IsSome(in_flight[i].client)
               /\ in_flight[i].client = Some(in_flight[i].project)
               /\ Ends(Unwrap(handling).arg, Unwrap(handling).o).client = in_flight[i].client

\* the deletion confirmed in the dialog has returned and the reload of the secrets
\* that follows it is in flight
C29_Witness ==
    /\ IsConfirm(current_view)
    /\ IsSome(handling)
    /\ Unwrap(handling).arg = Act("Enter")
    /\ Unwrap(handling).todo = <<>>
    /\ Len(in_flight) = 1
    /\ in_flight[1].op = "list_secrets"

\* ---------------------------------------------------------------- C30

\* C30: a step answers RunGcloudAuth, and run_app goes on to run gcloud, exactly
\* when it handles Enter in AuthRequired (no help overlay shown).  gcloud is run in
\* AuthRequired only.  When it succeeds the step issues list_projects and nothing
\* else, and ends in ProjectSelector with the projects listed, or in AuthRequired
\* with an error status if the listing fails.  When it fails or cannot be run the
\* view stays AuthRequired, the status is an error, and no other field of the App
\* changes.
C30_InteractiveAuth ==
    /\ pc = "loop" =>
           \A a \in Actions : \A o \in Outcomes(a) :
               LET t == After(a, o)
                   asked == a.kind = "Enter" /\ current_view = AuthRequired /\ ~show_help
               IN  /\ t.result = Some("RunGcloudAuth") <=> asked
                   /\ t.pc = "auth" <=> asked
                   /\ asked => [t EXCEPT !.pc = "loop", !.result = None] = App
    /\ pc = "auth" =>
           /\ current_view = AuthRequired
           /\ \A o \in OutcomesOf(run_gcloud_auth(App, "success", AllOk).calls) :
                  LET t == run_gcloud_auth(App, "success", o)
                  IN  /\ t.pc = "loop"
                      /\ Len(t.calls) = 1
                      /\ t.calls[1].op = "list_projects"
                      /\ IF IsSome(o.list_projects)
                         THEN /\ t.current_view = ProjectSelector
                              /\ t.available_projects = Unwrap(o.list_projects)
                              /\ ~Unwrap(t.status).is_error
                         ELSE /\ t.current_view = AuthRequired
                              /\ Unwrap(t.status).is_error
                              /\ t.available_projects = available_projects
                      /\ t.client = client
                      /\ t.project_id = project_id
           /\ \A how \in {"failed", "error"} :
                  LET t == run_gcloud_auth(App, how, NoOutcome)
                  IN  /\ t.current_view = AuthRequired
                      /\ t.pc = "loop"
                      /\ IsSome(t.status)
                      /\ Unwrap(t.status).is_error
                      /\ t.calls = <<>>
                      /\ [t EXCEPT !.status = status, !.pc = "auth"] = App

\* Enter in the auth view, which shows the error of a failed listing or of a failed
\* gcloud, has asked for gcloud, whose success would lead to the project selector
C30_Witness ==
    /\ pc = "auth"
    /\ current_view = AuthRequired
    /\ IsSome(status)
    /\ Unwrap(status).is_error
    /\ run_gcloud_auth(App, "success", AllOk).current_view = ProjectSelector

\* ---------------------------------------------------------------- C31

\* C31: in every view, with the help overlay hidden, handling OpenProjectSelector
\* makes ProjectSelector the current view.
C31_SelectorOpensFromEveryView ==
    pc = "loop" /\ ~show_help =>
        \A o \in Outcomes(Act("OpenProjectSelector")) :
            After(Act("OpenProjectSelector"), o).current_view = ProjectSelector

\* ---------------------------------------------------------------- C32

\* the step that made t of the App switched to another project
Switched(t) == t.project_id /= project_id

\* C32: the client handle, when present, was built for the current project_id.  A
\* step builds a client only while the App has none, every call through the client
\* carries the handle built for the project it is made in, and a step that starts
\* with a handle ends with the same handle unless it is Enter in ProjectSelector on
\* another project, which discards it: a reload, Back, the escalation to
\* AuthRequired after a failed load and gcloud auth all keep it.
C32_ClientBuiltForProject ==
    /\ IsSome(client) => client = Some(project_id)
    /\ pc = "loop" =>
           \A a \in Actions : \A o \in Outcomes(a) :
               LET t == After(a, o)
               IN  /\ \A i \in 1..Len(t.calls) :
                          /\ t.calls[i].op = "new" => IsNone(t.calls[i].client)
                          /\ t.calls[i].op \in ClientOps =>
                                 t.calls[i].client = Some(t.calls[i].project)
                   /\ Switched(t) <=> /\ a.kind = "Enter"
                                      /\ current_view = ProjectSelector
                                      /\ ~show_help
                                      /\ IsSome(SelectedProject)
                                      /\ Unwrap(SelectedProject).project_id /= project_id
                   /\ Switched(t) =>
                          /\ t.calls /= <<>>
                          /\ t.calls[1].op = "new"
                          /\ t.client = IF o.new THEN Some(t.project_id) ELSE None
                   /\ ~Switched(t) /\ IsSome(client) => t.client = client
                   /\ ~Switched(t) /\ IsNone(client) /\ "new" \notin Ops(t) => IsNone(t.client)
    /\ pc = "auth" =>
           \A how \in {"success", "failed", "error"} :
               \A o \in OutcomesOf(run_gcloud_auth(App, how, AllOk).calls) :
                   run_gcloud_auth(App, how, o).client = client

\* a handle built for the first project is held in the selector with the cursor on
\* the second project, where Enter discards it, and a reload would keep it
C32_Witness ==
    /\ pc = "loop"
    /\ ~show_help
    /\ current_view = ProjectSelector
    /\ client = Some(ProjectIds[1])
    /\ IsSome(SelectedProject)
    /\ Unwrap(SelectedProject).project_id = ProjectIds[2]
    /\ After(Act("Enter"), AllOk).client = Some(ProjectIds[2])

\* ---------------------------------------------------------------- C33

\* the Actions the handler of `view` has an arm for (Help is handled before the
\* view is looked at)
HandledKinds(view) ==
    CASE view = AuthRequired -> {"Quit", "Enter"}
      [] view = SecretsList ->
             {"Quit", "Up", "Down", "Top", "Bottom", "Enter", "Refresh", "NewSecret",
              "Delete", "OpenProjectSelector"}
      [] view = ProjectSelector -> {"Quit", "Back", "Up", "Down", "Top", "Bottom", "Enter"}
      [] view = SecretDetail ->
             {"Quit", "Back", "Up", "Down", "Top", "Bottom", "Refresh", "NewVersion",
              "ToggleSecretValue", "Copy", "Enable", "Disable", "Delete",
              "OpenProjectSelector"}
      [] IsInput(view) ->
             {"Quit", "Back", "Enter", "Char", "Backspace", "CursorLeft", "CursorRight"}
      [] IsConfirm(view) -> {"Enter", "Back", "Quit"}

\* C33: with the help overlay hidden, an Action other than Help for which the
\* handler of the current view has no arm leaves every field of the App as it was,
\* returns neither Quit nor RunGcloudAuth, and issues no external call, whatever
\* the outcomes offered.
C33_UnhandledActionIsNoOp ==
    pc = "loop" /\ ~show_help =>
        \A a \in Actions :
            a.kind /= "Help" /\ a.kind \notin HandledKinds(current_view) =>
                \A o \in OutcomesOf(<<>>) \cup {AllOk, NoOutcome} \cup Outcomes(a) :
                    /\ After(a, o) = App
                    /\ IsNone(After(a, o).result)
                    /\ After(a, o).calls = <<>>

\* a confirmation dialog over a non-empty list, where Refresh, Delete, the list
\* keys and the project selector key have no arm
C33_Witness ==
    /\ pc = "loop"
    /\ ~show_help
    /\ IsConfirm(current_view)
    /\ secrets /= <<>>
    /\ After(Act("Refresh"), AllOk) = App
    /\ After(Act("Down"), NoOutcome) = App

\* ---------------------------------------------------------------- C34

\* the selection `sel` of a list is absent or an index of `list`
SelectionInList(sel, list) == IsNone(sel) \/ Unwrap(sel) < Len(list)

\* C34: in every reachable state the selected index of the secrets, of the
\* versions and of the projects is absent or smaller than the length of its list,
\* also after a successful reload that returned an empty list.
C34_SelectionWithinList ==
    /\ SelectionInList(secrets_state, secrets)
    /\ SelectionInList(versions_state, versions)
    /\ SelectionInList(projects_state, available_projects)

\* ---------------------------------------------------------------- C35

\* the version ids of the cached listing
CachedVersionIds == {versions[i].version : i \in 1..Len(versions)}

\* C35: whenever current_view is SecretDetail, the cached versions are the latest
\* successful listing of current_secret, or there are none; and every
\* access_version, enable_version, disable_version and destroy_version call pairs
\* the name of current_secret with a version id of a listing of that secret.
C35_VersionsOfCurrentSecret ==
    /\ current_view = SecretDetail /\ versions /= <<>> =>
           /\ IsSome(current_secret)
           /\ listed_for = Some(Unwrap(current_secret).short_name)
    /\ pc = "loop" =>
           \A a \in Begun : \A o \in Outcomes(a) :
               LET t == After(a, o)
               IN  \A i \in 1..Len(t.calls) :
                       t.calls[i].op \in {"access_version", "enable_version",
                                          "disable_version", "destroy_version"} =>
                           /\ IsSome(current_secret)
                           /\ t.calls[i].secret = Unwrap(current_secret).short_name
                           /\ t.calls[i].version \in CachedVersionIds
                           /\ listed_for = Some(t.calls[i].secret)

\* ---------------------------------------------------------------- C36

\* C36: a step issues delete_secret or destroy_version only when it handles Enter
\* in a Confirm view (help hidden), and then the one call the view carries.  A
\* Confirm view becomes current only by Delete, and while it is current every
\* step is Enter, Back or Quit, which leave it, or changes nothing but the help
\* overlay: the Delete that opened the view is the last handled action before the
\* call.  Back and Quit in the Confirm view return to the view underneath with no
\* call and no signal.
C36_DestructionOnlyConfirmed ==
    pc = "loop" =>
        \A a \in Actions : \A o \in Outcomes(a) :
            LET t == After(a, o)
                handled == ~show_help /\ a.kind \in {"Enter", "Back", "Quit"}
            IN  /\ Destructions(t) /= {} =>
                       /\ a.kind = "Enter"
                       /\ ~show_help
                       /\ IsConfirm(current_view)
                       /\ Destructions(t) = {TargetOf(ConfirmOf(current_view))}
                /\ IsConfirm(t.current_view) /\ t.current_view /= current_view =>
                       /\ a.kind = "Delete"
                       /\ ~show_help
                       /\ ~IsConfirm(current_view)
                /\ IsConfirm(current_view) /\ ~handled =>
                       [t EXCEPT !.show_help = show_help] = App
                /\ IsConfirm(current_view) /\ handled /\ ~Panicked(t) =>
                       ~IsConfirm(t.current_view)
                /\ IsConfirm(current_view) /\ ~show_help /\ a.kind \in {"Back", "Quit"} =>
                       /\ t.calls = <<>>
                       /\ IsNone(t.result)
                       /\ t.pc = "loop"
                       /\ IsSome(previous_view)
                       /\ t.current_view = Unwrap(previous_view)

\* a Confirm view in which Enter issues the destruction it carries
C36_Witness ==
    /\ pc = "loop"
    /\ ~show_help
    /\ IsConfirm(current_view)
    /\ Destructions(After(Act("Enter"), AllOk)) = {TargetOf(ConfirmOf(current_view))}
    /\ After(Act("Quit"), NoOutcome).calls = <<>>

\* ---------------------------------------------------------------- C37

\* the views of a project's secrets, and the dialogs over them
ProjectScoped(view) ==
    view \in {SecretsList, SecretDetail} \/ IsInput(view) \/ IsConfirm(view)

\* C37: whenever current_view is SecretsList or SecretDetail, or an Input or
\* Confirm dialog, project_id is non-empty, also after Back in the ProjectSelector
\* shown at a start without a project.
C37_ProjectChosen ==
    ProjectScoped(current_view) => project_id /= ""

\* ---------------------------------------------------------------- C38

\* run_app, at s in its loop, leaves the loop within n Quit actions in a row
RECURSIVE QuitsWithin(_, _)
QuitsWithin(s, n) ==
    /\ n > 0
    /\ LET t == run_app_loop([s EXCEPT !.result = None, !.calls = <<>>], Act("Quit"), AllOk)
       IN  \/ t.pc = "quit"
           \/ t.pc = "loop" /\ QuitsWithin(t, n - 1)

\* C38: from every state of the loop, three Quit actions in a row end the program
\* at the latest.  Quit with the help overlay shown only hides the overlay; Quit in
\* a Confirm view with help hidden only goes back to the view underneath; Quit in
\* any other view with help hidden returns the Quit signal at once, changing no
\* field.  None of these steps issues an external call.
C38_QuitTerminates ==
    pc = "loop" =>
        LET t == After(Act("Quit"), AllOk)
        IN  /\ QuitsWithin(App, 3)
            /\ t.calls = <<>>
            /\ show_help => t = [App EXCEPT !.show_help = FALSE]
            /\ ~show_help /\ IsConfirm(current_view) =>
                   /\ t.pc = "loop"
                   /\ IsNone(t.result)
                   /\ t = go_back(App)
                   /\ QuitsWithin(t, 1)
            /\ ~show_help /\ ~IsConfirm(current_view) =>
                   t = [App EXCEPT !.pc = "quit", !.result = Some("Quit")]

\* the help overlay is shown over a Confirm dialog: the third Quit is the first to
\* end the program
C38_Witness ==
    /\ pc = "loop"
    /\ show_help
    /\ IsConfirm(current_view)
    /\ ~QuitsWithin(App, 2)
    /\ QuitsWithin(App, 3)

\* ---------------------------------------------------------------- C39

\* C39: in every reachable state in which current_view is SecretsList or
\* AuthRequired no value is revealed, and every step that ends in one of these
\* views (Back, the return of a dialog, a project switch, a deletion, a failed load
\* that escalates to AuthRequired) ends with revealed_value absent.
C39_NoValueOutsideDetail ==
    /\ current_view \in {SecretsList, AuthRequired} => IsNone(revealed_value)
    /\ pc = "loop" =>
           \A a \in Actions : \A o \in Outcomes(a) :
               After(a, o).current_view \in {SecretsList, AuthRequired} =>
                   IsNone(After(a, o).revealed_value)

\* a value is revealed in the detail view, and Back leads to the secrets list
C39_Witness ==
    /\ pc = "loop"
    /\ ~show_help
    /\ current_view = SecretDetail
    /\ IsSome(revealed_value)
    /\ After(Act("Back"), NoOutcome).current_view = SecretsList
    /\ IsNone(After(Act("Back"), NoOutcome).revealed_value)

\* ---------------------------------------------------------------- C40

\* C40: previous_view, when recorded, is never an Input view, a Confirm view or
\* ProjectSelector; it is recorded only while current_view is SecretDetail, an
\* Input view, a Confirm view or ProjectSelector; and while an Input or a Confirm
\* view is current it is recorded and is SecretsList or SecretDetail.
C40_DialogsNeverStack ==
    /\ IsSome(previous_view) =>
           /\ ~IsInput(Unwrap(previous_view))
           /\ ~IsConfirm(Unwrap(previous_view))
           /\ Unwrap(previous_view) /= ProjectSelector
           /\ \/ current_view \in {SecretDetail, ProjectSelector}
              \/ IsInput(current_view)
              \/ IsConfirm(current_view)
    /\ IsInput(current_view) \/ IsConfirm(current_view) =>
           previous_view \in {Some(SecretsList), Some(SecretDetail)}

\* an Input dialog over the detail view, whose own record of SecretsList the
\* dialog has replaced
C40_Witness ==
    /\ IsInput(current_view)
    /\ previous_view = Some(SecretDetail)
    /\ pc = "loop"
    /\ After(Act("Back"), NoOutcome).current_view = SecretDetail
    /\ IsNone(After(Act("Back"), NoOutcome).previous_view)

====
